---------------------------- MODULE Spec2Model ----------------------------
(***************************************************************************)
(* A model of the proxy relay engine of Parley (src/3_Parley.py, class     *)
(* TabContent): the lifecycle controller (toggle_proxy / stop_proxy, run   *)
(* on the GUI thread), the listener thread (start_proxy) and one relay     *)
(* thread per accepted connection (handle_client).                         *)
(*                                                                         *)
(* Threads interleave between Python statements that touch shared state:   *)
(* a membership test `x in list`, a `list.remove`, a `close()` are one     *)
(* step each.  Python objects are compared by identity: the SSLSocket      *)
(* returned by wrap_socket is a new object, the plain socket it was made   *)
(* from is detached (its close() no longer closes the connection).         *)
(*                                                                         *)
(* Bytes are not stored one by one.  A leg's inbound stream is numbered    *)
(* 0,1,2,...; a drained buffer is the interval [lo,hi) of that stream, and *)
(* a module's transform is an uninterpreted function: applying module      *)
(* m's function f with sequence number n to a payload appends <<f,n>> to   *)
(* the payload's trail `fx`.                                               *)
(***************************************************************************)
EXTENDS Integers, Sequences, FiniteSets, TLC

----------------------------------------------------------------------------
(* Bounds of the model *)

MaxSessions == 2     \* relay threads there may be
MaxAccepts  == 1     \* connections the listener(s) may accept
MaxReloads  == 1     \* module files moved while the program runs
MaxEvents   == 1     \* things the client may do, lifecycle specification
MaxRuns     == 1     \* times toggle_proxy may start the proxy
MaxStarts   == 2     \* the same where the proxy is started again

(* Program constant *)
buffer_size == 4096

Sessions == 1 .. MaxSessions
Runs     == 1 .. MaxStarts
Legs     == {"c", "t"}           \* client-facing leg, target-facing leg
NoSock   == <<"None", 0>>        \* None where a socket object is expected
NoThread == 0                    \* no thread

(***************************************************************************)
(* Socket objects.  <<"c",i>> is the socket accept() returned for session  *)
(* i, <<"f",i>> the socket handle_client creates, <<"wc",i>> / <<"wf",i>>  *)
(* the SSLSocket objects wrap_socket returns for them, <<"L",r>> the       *)
(* listening socket start_proxy creates in run r.                          *)
(***************************************************************************)
SessionSocks == {"c", "f", "wc", "wf"} \X Sessions
ListenSocks  == {"L"} \X Runs
AllSocks     == SessionSocks \cup ListenSocks

LegOf(s)   == IF s[1] \in {"c", "wc"} THEN "c" ELSE "t"
Other(l)   == IF l = "c" THEN "t" ELSE "c"
Wrapped(s) == <<IF s[1] = "c" THEN "wc" ELSE "wf", s[2]>>

(***************************************************************************)
(* Transform modules: files of the two "enabled" directories.  A module id *)
(* is the file's rank in sorted(os.listdir(dir)).  What module_function    *)
(* does is the module author's: "xf" returns a transformed buffer, "id"    *)
(* returns its argument, "raise" raises, "none" returns None.  Files 1 and *)
(* 6 hold the same transform A under two names, file 2 the transform B.    *)
(***************************************************************************)
Modules == 1 .. 6
ModuleKind(m) ==
    CASE m = 1 -> "xf"
      [] m = 2 -> "xf"
      [] m = 3 -> "id"
      [] m = 4 -> "raise"
      [] m = 5 -> "none"
      [] m = 6 -> "xf"
ModuleFunction(m) ==
    CASE m = 1 -> "A"
      [] m = 2 -> "B"
      [] m = 3 -> "identity"
      [] m = 4 -> "raises"
      [] m = 5 -> "returns_none"
      [] m = 6 -> "A"

----------------------------------------------------------------------------
(* Sequence helpers *)

RECURSIVE SortedSeq(_)
SortedSeq(S) ==
    IF S = {} THEN <<>>
    ELSE LET m == CHOOSE x \in S : \A y \in S : x <= y
         IN  <<m>> \o SortedSeq(S \ {m})

InSeq(x, q) == \E k \in 1 .. Len(q) : q[k] = x

RECURSIVE RemoveFirst(_, _)
RemoveFirst(q, x) ==
    IF q = <<>> THEN <<>>
    ELSE IF Head(q) = x THEN Tail(q)
    ELSE <<Head(q)>> \o RemoveFirst(Tail(q), x)

Min(a, b) == IF a <= b THEN a ELSE b

----------------------------------------------------------------------------
(* State *)

VARIABLES
    proxy_running,            \* self.proxy_running
    server_socket,            \* self.server_socket: a listening socket or None
    client_sockets,           \* self.client_sockets: the socket registry (list)
    client_threads,           \* self.client_threads: the thread list
    loaded_modules_client,    \* self.loaded_modules_client, in insertion order
    loaded_modules_server,    \* self.loaded_modules_server, in insertion order
    module_dicts,             \* which dict objects the two attributes name
    enabled,                  \* module files in the two "enabled" directories
    sockState,                \* every socket object: none/open/closed/detached
    leg,                      \* the two TCP connections of each session
    ctl,                      \* the GUI thread inside toggle_proxy / stop_proxy
    lst,                      \* the listener thread of each run (start_proxy)
    sess                      \* the relay thread of each session (handle_client)

vars == <<proxy_running, server_socket, client_sockets, client_threads,
          loaded_modules_client, loaded_modules_server, module_dicts,
          enabled, sockState, leg, ctl, lst, sess>>

shared == <<proxy_running, server_socket, client_sockets, client_threads>>
loaded == <<loaded_modules_client, loaded_modules_server, module_dicts>>

(* An empty buffer: bytearray() *)
EmptyData == [org |-> "c", lo |-> 0, hi |-> 0, fx |-> <<>>]
(* None where a buffer is expected *)
NoneData  == [org |-> "None", lo |-> 0, hi |-> 0, fx |-> <<>>]

(* A dict object named by self.loaded_modules_client / _server: the dicts  *)
(* made so far for the attribute are numbered 0, 1, ...; gen is the one    *)
(* the attribute names now, old[g + 1] the size dict g had when it was     *)
(* replaced (nothing changes a dict after that).                           *)
Dict0 == [gen |-> 0, old |-> <<>>]

(* A dict iterator: the dict it iterates and the size that dict had when   *)
(* the iterator was made.                                                  *)
Iter0 == [gen |-> 0, used |-> 0]

Leg0 ==
    [conn   |-> FALSE,   \* the connection is established
     flight |-> 0,       \* bytes the peer has written that have not arrived yet
     avail  |-> 0,       \* bytes waiting in the receive buffer
     rpos   |-> 0,       \* bytes recv() has returned so far
     eof    |-> FALSE,   \* the peer has closed its end
     rst    |-> FALSE,   \* the connection was reset
     oob    |-> FALSE,   \* an exceptional condition is pending
     events |-> 0,       \* history: things the peer has done
     out    |-> <<>>]    \* the payloads sendall() has delivered to the peer

Sess0 ==
    [pc              |-> "none",
     client_socket   |-> NoSock,
     forward_socket  |-> NoSock,
     use_tls_client  |-> FALSE,
     use_tls_server  |-> FALSE,
     target_port     |-> "int",     \* the target_port argument
     run             |-> 0,         \* history: the run that accepted it
     connection_info |-> FALSE,     \* 'connection_info' in locals()
     sockets         |-> <<>>,
     readable        |-> <<>>,
     errored         |-> <<>>,
     s               |-> NoSock,
     full_data       |-> EmptyData,
     client_msg_num  |-> 0,
     server_msg_num  |-> 0,
     mods            |-> <<>>,      \* modules the for loop has still to call
     it              |-> Iter0,     \* the dict iterator of that for loop
     fin             |-> <<>>,      \* sockets the finally loop has still to do
     error           |-> "",        \* the exception that ended the thread's try
     calls           |-> <<>>,      \* history: every module_function call
     recvd           |-> {}]        \* history: legs recv() was called on

(***************************************************************************)
(* What toggle_proxy reads from the form.  A port field holds an integer   *)
(* a socket accepts ("int"), an integer outside 0..65535 ("range"), or     *)
(* something int() rejects ("text"); the remote host is empty or not.      *)
(***************************************************************************)
PortTexts == {"int", "range", "text"}
Hosts     == {"", "host"}
Configs ==
    [listen_port : PortTexts, target_port : PortTexts, target_host : Hosts,
     use_tls_client : BOOLEAN, use_tls_server : BOOLEAN]

ValidConfig(cfg) ==
    cfg.listen_port = "int" /\ cfg.target_port = "int" /\ cfg.target_host # ""

Config0 ==
    [listen_port |-> "int", target_port |-> "int", target_host |-> "host",
     use_tls_client |-> FALSE, use_tls_server |-> FALSE]

Lst0 ==
    [pc   |-> "none",
     cfg  |-> Config0,    \* the arguments of start_proxy
     new  |-> 0,          \* client_thread, started and not yet appended
     listening |-> FALSE, \* the socket this run created is bound and listens
     snap |-> <<>>,       \* self.client_sockets[:] of the finally block
     seen |-> <<>>,       \* history: that snapshot as it was taken
     sock |-> NoSock,     \* the loop variable of the finally block
     accept_error |-> FALSE,   \* history: the loop ended on an accept error
     flag_seen_false |-> FALSE]  \* history: line 672 found the flag false

Ctl0 ==
    [pc     |-> "idle",
     runs   |-> 0,        \* starts so far
     snap   |-> <<>>,     \* self.client_sockets[:] of stop_proxy
     seen   |-> <<>>,     \* history: that snapshot as it was taken
     sock   |-> NoSock,
     tsnap  |-> <<>>,     \* self.client_threads[:] of stop_proxy
     thread |-> 0,
     log    |-> <<>>,     \* history: what the current stop_proxy has done
     stops  |-> 0,        \* history: stop_proxy calls that returned
     raised |-> 0,        \* history: stop_proxy calls that ended in ValueError
     rejected |-> 0,      \* history: toggle_proxy refused to start
     todo     |-> <<>>,   \* module files the running load loop has yet to load
     starting |-> FALSE,  \* the load was called by toggle_proxy
     cfg      |-> Config0,    \* what toggle_proxy read from the form
     reloads  |-> 0,      \* module files moved so far
     stopped  |-> 0]      \* history: the last run a stop_proxy has stopped

(* The module directories of the lifecycle specification. *)
EnabledChoices ==
    { [c |-> {1, 2}, s |-> {2}] }

Init ==
    /\ proxy_running = FALSE
    /\ server_socket = NoSock
    /\ client_sockets = <<>>
    /\ client_threads = <<>>
    /\ loaded_modules_client = <<>>
    /\ loaded_modules_server = <<>>
    /\ module_dicts = [d \in Legs |-> Dict0]
    /\ enabled \in EnabledChoices
    /\ sockState = [x \in AllSocks |-> "none"]
    /\ leg = [i \in Sessions |-> [l \in Legs |-> Leg0]]
    /\ ctl = Ctl0
    /\ lst = [r \in Runs |-> Lst0]
    /\ sess = [i \in Sessions |-> Sess0]

(* close() on a socket object: closes the connection if the object still   *)
(* owns it; on a detached or closed object it does nothing.                *)
Close(st, x) == IF st[x] = "open" THEN [st EXCEPT ![x] = "closed"] ELSE st

ThreadDone(i) == sess[i].pc \in {"done", "dead"}

----------------------------------------------------------------------------
(* The lifecycle controller: toggle_proxy and stop_proxy, on the GUI thread *)

(* load_modules: each dict is filled in sorted(os.listdir(dir)) order *)
load_client_modules == SortedSeq(enabled.c)
load_server_modules == SortedSeq(enabled.s)

(* the modules of direction d, in call order: line 640 / line 645 *)
Pipeline(d) == IF d = "c" THEN loaded_modules_client ELSE loaded_modules_server

(* how many entries dict g of direction d has *)
DictSize(d, g) ==
    IF g = module_dicts[d].gen THEN Len(Pipeline(d))
    ELSE module_dicts[d].old[g + 1]

(* lines 556 / 572: the attribute is bound to a fresh, empty dict *)
NewDict(d) ==
    [module_dicts EXCEPT ![d] = [gen |-> @.gen + 1,
                                 old |-> Append(@.old, Len(Pipeline(d)))]]

(* toggle_proxy, not running, lines 745-773.  int() of a port field that   *)
(* is no integer raises ValueError (line 766: the flag is set false); an   *)
(* empty remote host returns at line 757; anything else loads the modules, *)
(* sets the flag and starts the listener thread with what was read.        *)
Toggle(cfg) ==
    /\ ctl.pc = "idle"
    /\ ~proxy_running
    /\ IF cfg.listen_port = "text" \/ cfg.target_port = "text"
            \/ cfg.target_host = ""
         THEN /\ proxy_running' = FALSE
              /\ ctl' = [ctl EXCEPT !.rejected = 1]
              /\ UNCHANGED <<loaded, lst>>
         ELSE /\ ctl.runs < MaxStarts
              /\ loaded_modules_client' = <<>>
              /\ module_dicts' = NewDict("c")
              /\ ctl' = [ctl EXCEPT !.pc = "load_client",
                                    !.todo = load_client_modules,
                                    !.starting = TRUE, !.cfg = cfg]
              /\ UNCHANGED <<proxy_running, loaded_modules_server, lst>>
    /\ UNCHANGED <<server_socket, client_sockets, client_threads, enabled,
                   sockState, leg, sess>>

(* toggle_client_module / toggle_server_module, lines 518-551: the file of *)
(* module m is moved to the other directory of direction d and the modules *)
(* of that direction are loaded again, whether the proxy runs or not.      *)
ToggleModule(d, m) ==
    /\ ctl.pc = "idle"
    /\ ctl.reloads < MaxReloads
    /\ LET dir == IF d = "c" THEN "c" ELSE "s"
           now == IF m \in enabled[dir] THEN enabled[dir] \ {m}
                  ELSE enabled[dir] \cup {m}
       IN  /\ enabled' = [enabled EXCEPT ![dir] = now]
           /\ ctl' = [ctl EXCEPT !.pc = IF d = "c" THEN "load_client"
                                        ELSE "load_server",
                                 !.todo = SortedSeq(now),
                                 !.starting = FALSE,
                                 !.reloads = @ + 1]
    /\ module_dicts' = NewDict(d)
    /\ IF d = "c"
         THEN loaded_modules_client' = <<>> /\ UNCHANGED loaded_modules_server
         ELSE loaded_modules_server' = <<>> /\ UNCHANGED loaded_modules_client
    /\ UNCHANGED <<shared, sockState, leg, lst, sess>>

(* lines 560-566: one module file is executed and entered into the dict *)
LoadClient ==
    /\ ctl.pc = "load_client"
    /\ ctl.todo # <<>>
    /\ loaded_modules_client' = Append(loaded_modules_client, Head(ctl.todo))
    /\ ctl' = [ctl EXCEPT !.todo = Tail(@)]
    /\ UNCHANGED <<shared, loaded_modules_server, module_dicts, enabled,
                   sockState, leg, lst, sess>>

(* the loop of line 560 ends; under load_modules (line 588) the server     *)
(* modules follow, line 572                                                *)
LoadClientEnd ==
    /\ ctl.pc = "load_client"
    /\ ctl.todo = <<>>
    /\ IF ctl.starting
         THEN /\ loaded_modules_server' = <<>>
              /\ module_dicts' = NewDict("t")
              /\ ctl' = [ctl EXCEPT !.pc = "load_server",
                                    !.todo = load_server_modules]
         ELSE /\ ctl' = [ctl EXCEPT !.pc = "idle"]
              /\ UNCHANGED <<loaded_modules_server, module_dicts>>
    /\ UNCHANGED <<shared, loaded_modules_client, enabled, sockState, leg,
                   lst, sess>>

(* lines 576-582 *)
LoadServer ==
    /\ ctl.pc = "load_server"
    /\ ctl.todo # <<>>
    /\ loaded_modules_server' = Append(loaded_modules_server, Head(ctl.todo))
    /\ ctl' = [ctl EXCEPT !.todo = Tail(@)]
    /\ UNCHANGED <<shared, loaded_modules_client, module_dicts, enabled,
                   sockState, leg, lst, sess>>

(* the loop of line 576 ends *)
LoadServerEnd ==
    /\ ctl.pc = "load_server"
    /\ ctl.todo = <<>>
    /\ ctl' = [ctl EXCEPT !.pc = IF ctl.starting THEN "start_thread"
                                 ELSE "idle"]
    /\ UNCHANGED <<shared, loaded, enabled, sockState, leg, lst, sess>>

(* lines 760-764: the flag is set and the listener thread started *)
StartThread ==
    /\ ctl.pc = "start_thread"
    /\ proxy_running' = TRUE
    /\ lst' = [lst EXCEPT ![ctl.runs + 1] =
                 [Lst0 EXCEPT !.pc = "create", !.cfg = ctl.cfg]]
    /\ ctl' = [ctl EXCEPT !.pc = "idle", !.runs = @ + 1, !.starting = FALSE]
    /\ UNCHANGED <<server_socket, client_sockets, client_threads, loaded,
                   enabled, sockState, leg, sess>>

(* load_client_modules and load_server_modules, step by step *)
LoadModules == LoadClient \/ LoadClientEnd \/ LoadServer \/ LoadServerEnd

(* toggle_proxy, not running, with a valid configuration *)
ToggleStart(tc, ts) ==
    Toggle([Config0 EXCEPT !.use_tls_client = tc, !.use_tls_server = ts])

(* toggle_proxy, running: stop_proxy; line 713 *)
StopFlag ==
    /\ ctl.pc = "idle"
    /\ proxy_running
    /\ proxy_running' = FALSE
    /\ ctl' = [ctl EXCEPT !.pc = "stop_server_socket",
                          !.log = << <<"flag", NoSock>> >>, !.seen = <<>>]
    /\ UNCHANGED <<server_socket, client_sockets, client_threads, loaded,
                   enabled, sockState, leg, lst, sess>>

(* lines 714-719 *)
StopServerSocket ==
    /\ ctl.pc = "stop_server_socket"
    /\ IF server_socket # NoSock
         THEN /\ sockState' = Close(sockState, server_socket)
              /\ ctl' = [ctl EXCEPT !.pc = "stop_snapshot",
                           !.log = Append(@, <<"close_listen", server_socket>>)]
         ELSE /\ sockState' = sockState
              /\ ctl' = [ctl EXCEPT !.pc = "stop_snapshot"]
    /\ server_socket' = NoSock
    /\ UNCHANGED <<proxy_running, client_sockets, client_threads, loaded,
                   enabled, leg, lst, sess>>

(* stop_proxy going on to the joins with sockets of its snapshot unclosed *)
StopNextSockSkipsRest(c, q) ==
    [c EXCEPT !.pc = "stop_threads", !.snap = <<>>, !.sock = NoSock]

(* the for statement of line 721 / 729: take the next element or go on *)
StopNextSock(c, q) ==
    IF q = <<>>
      THEN [c EXCEPT !.pc = "stop_threads", !.snap = <<>>, !.sock = NoSock]
      ELSE [c EXCEPT !.pc = "stop_close", !.snap = Tail(q), !.sock = Head(q)]

StopNextThread(c, q) ==
    IF q = <<>>
      THEN [c EXCEPT !.pc = "stop_log", !.tsnap = <<>>, !.thread = NoThread]
      ELSE [c EXCEPT !.pc = "stop_join", !.tsnap = Tail(q), !.thread = Head(q)]

(* line 721: self.client_sockets[:] *)
StopSnapshot ==
    /\ ctl.pc = "stop_snapshot"
    /\ ctl' = StopNextSock([ctl EXCEPT !.seen = client_sockets], client_sockets)
    /\ UNCHANGED <<shared, loaded, enabled, sockState, leg, lst, sess>>

(* lines 722-725 *)
StopClose ==
    /\ ctl.pc = "stop_close"
    /\ sockState' = Close(sockState, ctl.sock)
    /\ ctl' = [ctl EXCEPT !.pc = "stop_check",
                          !.log = Append(@, <<"close", ctl.sock>>)]
    /\ UNCHANGED <<shared, loaded, enabled, leg, lst, sess>>

(* line 726 *)
StopCheck ==
    /\ ctl.pc = "stop_check"
    /\ ctl' = IF InSeq(ctl.sock, client_sockets)
                THEN [ctl EXCEPT !.pc = "stop_remove"]
                ELSE StopNextSock(ctl, ctl.snap)
    /\ UNCHANGED <<shared, loaded, enabled, sockState, leg, lst, sess>>

(* line 727: list.remove raises ValueError when the element is gone; the   *)
(* exception leaves stop_proxy.                                            *)
StopRemove ==
    /\ ctl.pc = "stop_remove"
    /\ IF InSeq(ctl.sock, client_sockets)
         THEN /\ client_sockets' = RemoveFirst(client_sockets, ctl.sock)
              /\ ctl' = StopNextSock(ctl, ctl.snap)
         ELSE /\ client_sockets' = client_sockets
              /\ ctl' = [ctl EXCEPT !.pc = "idle", !.raised = 1, !.snap = <<>>,
                                    !.sock = NoSock]
    /\ UNCHANGED <<proxy_running, server_socket, client_threads, loaded,
                   enabled, sockState, leg, lst, sess>>

(* line 729: self.client_threads[:] *)
StopThreads ==
    /\ ctl.pc = "stop_threads"
    /\ ctl' = StopNextThread(ctl, client_threads)
    /\ UNCHANGED <<shared, loaded, enabled, sockState, leg, lst, sess>>

(* line 731: thread.join(timeout=1.0) returns when the thread has ended or *)
(* when the second is over, whichever comes first.                         *)
JoinReturns(i) == ThreadDone(i) \/ TRUE

StopJoin ==
    /\ ctl.pc = "stop_join"
    /\ JoinReturns(ctl.thread)
    /\ ctl' = [ctl EXCEPT !.pc = "stop_thread_remove",
                          !.log = Append(@, <<"join", <<"T", ctl.thread>> >>)]
    /\ UNCHANGED <<shared, loaded, enabled, sockState, leg, lst, sess>>

(* line 734 *)
StopThreadRemove ==
    /\ ctl.pc = "stop_thread_remove"
    /\ IF InSeq(ctl.thread, client_threads)
         THEN /\ client_threads' = RemoveFirst(client_threads, ctl.thread)
              /\ ctl' = StopNextThread(ctl, ctl.tsnap)
         ELSE /\ client_threads' = client_threads
              /\ ctl' = [ctl EXCEPT !.pc = "idle", !.raised = 1,
                                    !.tsnap = <<>>, !.thread = NoThread]
    /\ UNCHANGED <<proxy_running, server_socket, client_sockets, loaded,
                   enabled, sockState, leg, lst, sess>>

(* lines 735-737, and back in toggle_proxy *)
StopLog ==
    /\ ctl.pc = "stop_log"
    /\ ctl' = [ctl EXCEPT !.pc = "idle", !.stops = 1, !.stopped = ctl.runs]
    /\ UNCHANGED <<shared, loaded, enabled, sockState, leg, lst, sess>>

(* toggle_proxy, running: stop_proxy from its first statement to its last *)
StopProxy ==
    \/ StopFlag
    \/ StopServerSocket
    \/ StopSnapshot
    \/ StopClose
    \/ StopCheck
    \/ StopRemove
    \/ StopThreads
    \/ StopJoin
    \/ StopThreadRemove
    \/ StopLog

Controller ==
    \/ \E tc \in BOOLEAN, ts \in BOOLEAN :
          ctl.runs < MaxRuns /\ ToggleStart(tc, ts)
    \/ LoadModules
    \/ StartThread
    \/ StopProxy

----------------------------------------------------------------------------
(* The listener thread: start_proxy *)

UnusedSessions == {i \in Sessions : sess[i].pc = "none"}

(* lines 666-667.  The attribute held the only reference to the socket it *)
(* named before: that object is closed when its reference count drops.    *)
LCreate(r) ==
    /\ lst[r].pc = "create"
    /\ server_socket' = <<"L", r>>
    /\ sockState' = [(IF server_socket # NoSock
                        THEN Close(sockState, server_socket)
                        ELSE sockState) EXCEPT ![<<"L", r>>] = "open"]
    /\ lst' = [lst EXCEPT ![r].pc = "bind"]
    /\ UNCHANGED <<proxy_running, client_sockets, client_threads, loaded,
                   enabled, leg, ctl, sess>>

(* lines 669-671: bind and listen on whatever self.server_socket is now;   *)
(* None (AttributeError), a closed socket, a port outside 0..65535         *)
(* (OverflowError), a socket that is bound already or an address in use    *)
(* end in the handler of line 687.                                         *)
LBind(r) ==
    /\ lst[r].pc = "bind"
    /\ \/ /\ server_socket # NoSock
          /\ sockState[server_socket] = "open"
          /\ ~lst[server_socket[2]].listening
          /\ lst[r].cfg.listen_port = "int"
          /\ lst' = [lst EXCEPT ![r].pc = "while",
                                ![server_socket[2]].listening = TRUE]
       \/ lst' = [lst EXCEPT ![r].pc = "finally_flag"]
    /\ UNCHANGED <<shared, loaded, enabled, sockState, leg, ctl, sess>>

(* line 672 *)
LWhile(r) ==
    /\ lst[r].pc = "while"
    /\ lst' = [lst EXCEPT ![r].pc = IF proxy_running THEN "accept"
                                    ELSE "finally_flag",
                          ![r].flag_seen_false = ~proxy_running]
    /\ UNCHANGED <<shared, loaded, enabled, sockState, leg, ctl, sess>>

(* lines 674-675 and 682-683: nothing connected within the second *)
LAcceptTimeout(r) ==
    /\ lst[r].pc = "accept"
    /\ server_socket # NoSock
    /\ sockState[server_socket] = "open"
    /\ lst[server_socket[2]].listening
    /\ lst' = [lst EXCEPT ![r].pc = "while"]
    /\ UNCHANGED <<shared, loaded, enabled, sockState, leg, ctl, sess>>

(* lines 674-680: a connection is accepted and its relay thread started *)
LAccept(r, i) ==
    /\ lst[r].pc = "accept"
    /\ server_socket # NoSock
    /\ sockState[server_socket] = "open"
    /\ lst[server_socket[2]].listening
    /\ i \in UnusedSessions
    /\ \A j \in UnusedSessions : i <= j
    /\ i <= MaxAccepts
    /\ sockState' = [sockState EXCEPT ![<<"c", i>>] = "open"]
    /\ leg' = [leg EXCEPT ![i]["c"].conn = TRUE]
    /\ sess' = [sess EXCEPT ![i] =
                  [Sess0 EXCEPT !.pc = "start",
                                !.client_socket = <<"c", i>>,
                                !.use_tls_client = lst[r].cfg.use_tls_client,
                                !.use_tls_server = lst[r].cfg.use_tls_server,
                                !.target_port = lst[r].cfg.target_port,
                                !.run = r]]
    /\ lst' = [lst EXCEPT ![r].pc = "append", ![r].new = i]
    /\ UNCHANGED <<shared, loaded, enabled, ctl>>

(* lines 684-686: settimeout on None, accept on a closed socket or on one  *)
(* that does not listen, or any other failure of accept: "Error accepting  *)
(* connection", break.                                                     *)
LAcceptError(r) ==
    /\ lst[r].pc = "accept"
    /\ lst' = [lst EXCEPT ![r].pc = "finally_flag", ![r].accept_error = TRUE]
    /\ UNCHANGED <<shared, loaded, enabled, sockState, leg, ctl, sess>>

(* line 681 *)
LAppend(r) ==
    /\ lst[r].pc = "append"
    /\ client_threads' = Append(client_threads, lst[r].new)
    /\ lst' = [lst EXCEPT ![r].pc = "while", ![r].new = NoThread]
    /\ UNCHANGED <<proxy_running, server_socket, client_sockets, loaded,
                   enabled, sockState, leg, ctl, sess>>

(* line 691 *)
LFinallyFlag(r) ==
    /\ lst[r].pc = "finally_flag"
    /\ proxy_running' = FALSE
    /\ lst' = [lst EXCEPT ![r].pc = "finally_server_socket"]
    /\ UNCHANGED <<server_socket, client_sockets, client_threads, loaded,
                   enabled, sockState, leg, ctl, sess>>

(* a finally block that drops the listening socket without closing it *)
LFinallyServerSocketForgets(r) ==
    /\ lst[r].pc = "finally_server_socket"
    /\ server_socket' = NoSock
    /\ lst' = [lst EXCEPT ![r].pc = "finally_snapshot"]
    /\ UNCHANGED <<proxy_running, client_sockets, client_threads, loaded,
                   enabled, sockState, leg, ctl, sess>>

(* lines 692-697 *)
LFinallyServerSocket(r) ==
    /\ lst[r].pc = "finally_server_socket"
    /\ sockState' = IF server_socket # NoSock
                      THEN Close(sockState, server_socket) ELSE sockState
    /\ server_socket' = NoSock
    /\ lst' = [lst EXCEPT ![r].pc = "finally_snapshot"]
    /\ UNCHANGED <<proxy_running, client_sockets, client_threads, loaded,
                   enabled, leg, ctl, sess>>

LNextSock(l, q) ==
    IF q = <<>>
      THEN [l EXCEPT !.pc = "finally_clear", !.snap = <<>>, !.sock = NoSock]
      ELSE [l EXCEPT !.pc = "finally_close", !.snap = Tail(q), !.sock = Head(q)]

(* line 699: self.client_sockets[:] *)
LFinallySnapshot(r) ==
    /\ lst[r].pc = "finally_snapshot"
    /\ lst' = [lst EXCEPT ![r] =
                 LNextSock([@ EXCEPT !.seen = client_sockets], client_sockets)]
    /\ UNCHANGED <<shared, loaded, enabled, sockState, leg, ctl, sess>>

(* the listener's finally block leaving the sockets of the registry open *)
LFinallyCloseSpares(r) ==
    /\ lst[r].pc = "finally_close"
    /\ lst' = [lst EXCEPT ![r].pc = "finally_check"]
    /\ UNCHANGED <<shared, loaded, enabled, sockState, leg, ctl, sess>>

(* lines 700-703 *)
LFinallyClose(r) ==
    /\ lst[r].pc = "finally_close"
    /\ sockState' = Close(sockState, lst[r].sock)
    /\ lst' = [lst EXCEPT ![r].pc = "finally_check"]
    /\ UNCHANGED <<shared, loaded, enabled, leg, ctl, sess>>

(* line 704 *)
LFinallyCheck(r) ==
    /\ lst[r].pc = "finally_check"
    /\ lst' = [lst EXCEPT ![r] =
                 IF InSeq(@.sock, client_sockets)
                   THEN [@ EXCEPT !.pc = "finally_remove"]
                   ELSE LNextSock(@, @.snap)]
    /\ UNCHANGED <<shared, loaded, enabled, sockState, leg, ctl, sess>>

(* line 705: a ValueError here ends the thread *)
LFinallyRemove(r) ==
    /\ lst[r].pc = "finally_remove"
    /\ IF InSeq(lst[r].sock, client_sockets)
         THEN /\ client_sockets' = RemoveFirst(client_sockets, lst[r].sock)
              /\ lst' = [lst EXCEPT ![r] = LNextSock(@, @.snap)]
         ELSE /\ client_sockets' = client_sockets
              /\ lst' = [lst EXCEPT ![r].pc = "dead", ![r].snap = <<>>,
                                    ![r].sock = NoSock]
    /\ UNCHANGED <<proxy_running, server_socket, client_threads, loaded,
                   enabled, sockState, leg, ctl, sess>>

(* lines 707-708 *)
LFinallyClear(r) ==
    /\ lst[r].pc = "finally_clear"
    /\ client_threads' = <<>>
    /\ lst' = [lst EXCEPT ![r].pc = "done"]
    /\ UNCHANGED <<proxy_running, server_socket, client_sockets, loaded,
                   enabled, sockState, leg, ctl, sess>>

Listener(r) ==
    \/ LCreate(r)
    \/ LBind(r)
    \/ LWhile(r)
    \/ LAcceptTimeout(r)
    \/ \E i \in Sessions : LAccept(r, i)
    \/ LAcceptError(r)
    \/ LAppend(r)
    \/ LFinallyFlag(r)
    \/ LFinallyServerSocket(r)
    \/ LFinallySnapshot(r)
    \/ LFinallyClose(r)
    \/ LFinallyCheck(r)
    \/ LFinallyRemove(r)
    \/ LFinallyClear(r)

ListenerDone(r) == lst[r].pc \in {"none", "done", "dead"}

----------------------------------------------------------------------------
(* The relay thread: handle_client *)

(* An exception inside the try block: line 653, then the finally block     *)
(* over [client_socket, forward_socket] as they are bound at that point.   *)
ToFinally(sv, e) ==
    [sv EXCEPT !.pc = "finally_check", !.error = e,
               !.fin = <<sv.client_socket, sv.forward_socket>>,
               !.readable = <<>>, !.errored = <<>>, !.s = NoSock,
               !.full_data = EmptyData, !.mods = <<>>, !.it = Iter0]

(* lines 615-618 *)
EnterLoop(sv) ==
    [sv EXCEPT !.pc = "while",
               !.sockets = <<sv.client_socket, sv.forward_socket>>,
               !.client_msg_num = 0, !.server_msg_num = 0]

(* lines 603 and 609: which setup step follows *)
AfterConnect(sv) ==
    IF sv.use_tls_server THEN [sv EXCEPT !.pc = "tls_server"]
    ELSE IF sv.use_tls_client THEN [sv EXCEPT !.pc = "tls_client"]
    ELSE EnterLoop(sv)

AfterTlsServer(sv) ==
    IF sv.use_tls_client THEN [sv EXCEPT !.pc = "tls_client"]
    ELSE EnterLoop(sv)

(* the for statement of line 625: the next readable socket, or back to 620 *)
NextReadable(sv) ==
    IF sv.readable = <<>>
      THEN [sv EXCEPT !.pc = "while", !.s = NoSock, !.full_data = EmptyData]
      ELSE [sv EXCEPT !.pc = "recv", !.s = Head(sv.readable),
                      !.readable = Tail(sv.readable),
                      !.full_data = EmptyData]

(* the for statement of line 622 *)
NextErrored(sv) ==
    IF sv.errored # <<>> THEN [sv EXCEPT !.pc = "errored"]
    ELSE NextReadable(sv)

(* `break` out of the for loop of line 625 *)
BreakFor(sv) ==
    [sv EXCEPT !.pc = "while", !.s = NoSock, !.readable = <<>>,
               !.full_data = EmptyData]

(* lines 593-594 *)
HStart(i) ==
    /\ sess[i].pc = "start"
    /\ sockState' = [sockState EXCEPT ![<<"f", i>>] = "open"]
    /\ client_sockets' = Append(client_sockets, sess[i].client_socket)
    /\ sess' = [sess EXCEPT ![i].pc = "register_forward",
                            ![i].forward_socket = <<"f", i>>]
    /\ UNCHANGED <<proxy_running, server_socket, client_threads, loaded,
                   enabled, leg, ctl, lst>>

(* line 595 *)
HRegisterForward(i) ==
    /\ sess[i].pc = "register_forward"
    /\ client_sockets' = Append(client_sockets, sess[i].forward_socket)
    /\ sess' = [sess EXCEPT ![i].pc = "connect"]
    /\ UNCHANGED <<proxy_running, server_socket, client_threads, loaded,
                   enabled, sockState, leg, ctl, lst>>

(* line 597 fails: the target is unreachable, target_port is outside       *)
(* 0..65535 (OverflowError), or forward_socket has been closed by another  *)
(* thread.                                                                 *)
HConnectFail(i) ==
    /\ sess[i].pc = "connect"
    /\ sess' = [sess EXCEPT ![i] = ToFinally(@, "connect")]
    /\ UNCHANGED <<shared, loaded, enabled, sockState, leg, ctl, lst>>

(* lines 597-601: connected; getpeername on a closed client_socket raises *)
HConnect(i) ==
    /\ sess[i].pc = "connect"
    /\ sockState[sess[i].forward_socket] = "open"
    /\ sess[i].target_port = "int"
    /\ leg' = [leg EXCEPT ![i]["t"].conn = TRUE]
    /\ sess' = [sess EXCEPT ![i] =
                  IF sockState[@.client_socket] = "open"
                    THEN AfterConnect([@ EXCEPT !.connection_info = TRUE])
                    ELSE ToFinally(@, "getpeername")]
    /\ UNCHANGED <<shared, loaded, enabled, sockState, ctl, lst>>

(* ssl wrap_socket(x): a new SSLSocket object takes the connection over    *)
(* and x is detached; if the handshake fails the new object closes the     *)
(* connection before the exception leaves wrap_socket.                     *)
WrapOk(st, x)   == [st EXCEPT ![x] = "detached", ![Wrapped(x)] = "open"]
WrapFail(st, x) == [st EXCEPT ![x] = "detached", ![Wrapped(x)] = "closed"]

(* lines 603-607, handshake succeeds *)
HTlsServer(i) ==
    /\ sess[i].pc = "tls_server"
    /\ sockState[sess[i].forward_socket] = "open"
    /\ sockState' = WrapOk(sockState, sess[i].forward_socket)
    /\ sess' = [sess EXCEPT ![i] =
                  AfterTlsServer([@ EXCEPT !.forward_socket = Wrapped(@)])]
    /\ UNCHANGED <<shared, loaded, enabled, leg, ctl, lst>>

(* lines 603-607 raise: load_cert_chain fails or the socket is closed      *)
(* (nothing is wrapped), or the handshake fails.                           *)
HTlsServerFail(i) ==
    /\ sess[i].pc = "tls_server"
    /\ \/ sockState' = sockState
       \/ /\ sockState[sess[i].forward_socket] = "open"
          /\ sockState' = WrapFail(sockState, sess[i].forward_socket)
    /\ sess' = [sess EXCEPT ![i] = ToFinally(@, "tls_server")]
    /\ UNCHANGED <<shared, loaded, enabled, leg, ctl, lst>>

(* lines 609-613, handshake succeeds *)
HTlsClient(i) ==
    /\ sess[i].pc = "tls_client"
    /\ sockState[sess[i].client_socket] = "open"
    /\ sockState' = WrapOk(sockState, sess[i].client_socket)
    /\ sess' = [sess EXCEPT ![i] =
                  EnterLoop([@ EXCEPT !.client_socket = Wrapped(@)])]
    /\ UNCHANGED <<shared, loaded, enabled, leg, ctl, lst>>

(* lines 609-613 raise *)
HTlsClientFail(i) ==
    /\ sess[i].pc = "tls_client"
    /\ \/ sockState' = sockState
       \/ /\ sockState[sess[i].client_socket] = "open"
          /\ sockState' = WrapFail(sockState, sess[i].client_socket)
    /\ sess' = [sess EXCEPT ![i] = ToFinally(@, "tls_client")]
    /\ UNCHANGED <<shared, loaded, enabled, leg, ctl, lst>>

(* a loop that tests the flag only *)
HWhileFlagOnly(i) ==
    /\ sess[i].pc = "while"
    /\ sess' = [sess EXCEPT ![i] =
                  IF proxy_running
                    THEN [@ EXCEPT !.pc = "select"]
                    ELSE ToFinally(@, "")]
    /\ UNCHANGED <<shared, loaded, enabled, sockState, leg, ctl, lst>>

(* line 620 *)
HWhile(i) ==
    /\ sess[i].pc = "while"
    /\ sess' = [sess EXCEPT ![i] =
                  IF @.sockets # <<>> /\ proxy_running
                    THEN [@ EXCEPT !.pc = "select"]
                    ELSE ToFinally(@, "")]
    /\ UNCHANGED <<shared, loaded, enabled, sockState, leg, ctl, lst>>

(* What select reports for a socket of the session *)
Readable(i, x) ==
    LET g == leg[i][LegOf(x)]
    IN  g.avail > 0 \/ (g.eof /\ g.flight = 0) \/ g.rst
Exceptional(i, x) == leg[i][LegOf(x)].oob

RECURSIVE Filter(_, _, _)
Filter(q, i, which) ==
    IF q = <<>> THEN <<>>
    ELSE LET r == Filter(Tail(q), i, which)
             keep == IF which = "r" THEN Readable(i, Head(q))
                     ELSE Exceptional(i, Head(q))
         IN  IF keep THEN <<Head(q)>> \o r ELSE r

(* line 621: select.select(sockets, [], sockets, 1.0).  A closed socket    *)
(* object in the list makes select raise ValueError (fileno() is -1);      *)
(* otherwise it returns what is ready now, or nothing after the second.    *)
HSelect(i) ==
    /\ sess[i].pc = "select"
    /\ sess' = [sess EXCEPT ![i] =
                  IF \E k \in 1 .. Len(@.sockets) : sockState[@.sockets[k]] # "open"
                    THEN ToFinally(@, "select")
                    ELSE NextErrored([@ EXCEPT
                           !.readable = Filter(sess[i].sockets, i, "r"),
                           !.errored  = Filter(sess[i].sockets, i, "x")])]
    /\ UNCHANGED <<shared, loaded, enabled, sockState, leg, ctl, lst>>

(* a relay that takes no notice of what select reports as errored *)
HErroredIgnores(i) ==
    /\ sess[i].pc = "errored"
    /\ sess' = [sess EXCEPT ![i] = NextErrored([@ EXCEPT !.errored = Tail(@)])]
    /\ UNCHANGED <<shared, loaded, enabled, sockState, leg, ctl, lst>>

(* lines 622-624 *)
HErrored(i) ==
    /\ sess[i].pc = "errored"
    /\ LET x == Head(sess[i].errored)
       IN  /\ sockState' = Close(sockState, x)
           /\ sess' = [sess EXCEPT ![i] =
                         NextErrored([@ EXCEPT !.sockets = RemoveFirst(@, x),
                                               !.errored = Tail(@)])]
    /\ UNCHANGED <<shared, loaded, enabled, leg, ctl, lst>>

(* full_data.extend(data) with data the next n bytes of leg l's stream *)
Extend(fd, l, pos, n) ==
    IF fd.lo = fd.hi
      THEN [org |-> l, lo |-> pos, hi |-> pos + n, fx |-> <<>>]
      ELSE [fd EXCEPT !.hi = @ + n]

(* a drain that forgets what it has read when the peer closes *)
HRecvForgetsAtEnd(i) ==
    /\ sess[i].pc = "recv"
    /\ LET x == sess[i].s
           l == LegOf(x)
           g == leg[i][l]
           n == Min(g.avail, buffer_size)
           sv == [sess[i] EXCEPT !.recvd = @ \cup {l}]
       IN  IF sockState[x] # "open" \/ g.rst
             THEN /\ sess' = [sess EXCEPT ![i] = BreakFor(sv)]
                  /\ leg' = leg
             ELSE IF g.avail > 0
               THEN /\ leg' = [leg EXCEPT ![i][l].avail = @ - n,
                                          ![i][l].rpos = @ + n]
                    /\ sess' = [sess EXCEPT ![i] =
                         [sv EXCEPT !.full_data = Extend(@, l, g.rpos, n),
                                    !.pc = IF n < buffer_size THEN "process"
                                           ELSE "recv"]]
               ELSE /\ g.eof /\ g.flight = 0
                    /\ leg' = leg
                    /\ sess' = [sess EXCEPT ![i] =
                         [sv EXCEPT !.pc = "process",
                                    !.full_data = EmptyData]]
    /\ UNCHANGED <<shared, loaded, enabled, sockState, ctl, lst>>

(* lines 628-636: one recv of the drain loop.  recv on a closed socket     *)
(* object or on a reset connection raises socket.error (line 635: break    *)
(* out of the for loop); it returns at most buffer_size of the bytes that  *)
(* have arrived, b"" at end of stream, and otherwise does not return.      *)
HRecv(i) ==
    /\ sess[i].pc = "recv"
    /\ LET x == sess[i].s
           l == LegOf(x)
           g == leg[i][l]
           n == Min(g.avail, buffer_size)
           sv == [sess[i] EXCEPT !.recvd = @ \cup {l}]
       IN  IF sockState[x] # "open" \/ g.rst
             THEN /\ sess' = [sess EXCEPT ![i] = BreakFor(sv)]
                  /\ leg' = leg
             ELSE IF g.avail > 0
               THEN /\ leg' = [leg EXCEPT ![i][l].avail = @ - n,
                                          ![i][l].rpos = @ + n]
                    /\ sess' = [sess EXCEPT ![i] =
                         [sv EXCEPT !.full_data = Extend(@, l, g.rpos, n),
                                    !.pc = IF n < buffer_size THEN "process"
                                           ELSE "recv"]]
               ELSE /\ g.eof /\ g.flight = 0
                    /\ leg' = leg
                    /\ sess' = [sess EXCEPT ![i] = [sv EXCEPT !.pc = "process"]]
    /\ UNCHANGED <<shared, loaded, enabled, sockState, ctl, lst>>

(* iter(): the iterator of the dict the attribute names now *)
NewIter(d) == [gen |-> module_dicts[d].gen, used |-> Len(Pipeline(d))]

(* a relay with one counter for both legs *)
HProcessOneCounter(i) ==
    /\ sess[i].pc = "process"
    /\ sess' = [sess EXCEPT ![i] =
         IF @.full_data.lo # @.full_data.hi
           THEN IF @.s = @.client_socket
                  THEN [@ EXCEPT !.client_msg_num = @ + 1,
                                 !.server_msg_num = @ + 1,
                                 !.mods = loaded_modules_client,
                                 !.it = NewIter("c"),
                                 !.pc = "module"]
                  ELSE [@ EXCEPT !.client_msg_num = @ + 1,
                                 !.server_msg_num = @ + 1,
                                 !.mods = loaded_modules_server,
                                 !.it = NewIter("t"),
                                 !.pc = "module"]
           ELSE [@ EXCEPT !.pc = "close_leg"]]
    /\ UNCHANGED <<shared, loaded, enabled, sockState, leg, ctl, lst>>

(* lines 637-640 / 643-645 / 648: a non-empty buffer starts the pipeline   *)
(* of its direction, an empty one goes to line 649.  The for statement     *)
(* reads the attribute once and iterates the dict it found there.          *)
HProcess(i) ==
    /\ sess[i].pc = "process"
    /\ sess' = [sess EXCEPT ![i] =
         IF @.full_data.lo # @.full_data.hi
           THEN IF @.s = @.client_socket
                  THEN [@ EXCEPT !.client_msg_num = @ + 1,
                                 !.mods = loaded_modules_client,
                                 !.it = NewIter("c"),
                                 !.pc = "module"]
                  ELSE [@ EXCEPT !.server_msg_num = @ + 1,
                                 !.mods = loaded_modules_server,
                                 !.it = NewIter("t"),
                                 !.pc = "module"]
           ELSE [@ EXCEPT !.pc = "close_leg"]]
    /\ UNCHANGED <<shared, loaded, enabled, sockState, leg, ctl, lst>>

(* a pipeline that hands every module the drained buffer, not the output   *)
(* of the module before it                                                 *)
ModuleReturnOnDrained(k, m, num, payload) ==
    CASE k = "id"   -> payload
      [] k = "none" -> NoneData
      [] k = "xf"   -> [payload EXCEPT !.fx = <<<<ModuleFunction(m), num>>>>]

(* module.module_function(msg_num, ..., payload) for a module of kind k *)
ModuleReturn(k, m, num, payload) ==
    CASE k = "id"   -> payload
      [] k = "none" -> NoneData
      [] k = "xf"   -> [payload EXCEPT !.fx = Append(@, <<ModuleFunction(m), num>>)]

ModuleRaises(k, payload) ==
    k = "raise" \/ (k = "xf" /\ payload = NoneData)

(* a relay that swallows what a module raises and goes on with the buffer  *)
(* as it was                                                               *)
HModuleSwallows(i) ==
    /\ sess[i].pc = "module"
    /\ sess' = [sess EXCEPT ![i] =
         LET cl == @.s = @.client_socket
             d  == IF cl THEN "c" ELSE "t"
         IN  IF DictSize(d, @.it.gen) # @.it.used
               THEN ToFinally(@, "iteration")
             ELSE IF @.mods = <<>>
               THEN [@ EXCEPT !.pc = "send", !.it = Iter0]
             ELSE LET m   == Head(@.mods)
                      k   == ModuleKind(m)
                      num == IF cl THEN @.client_msg_num ELSE @.server_msg_num
                      call == [mod |-> m, num |-> num, dir |-> d,
                               arg |-> @.full_data]
                      sv  == [@ EXCEPT !.calls = Append(@, call)]
                  IN  [sv EXCEPT !.full_data = IF ModuleRaises(k, @) THEN @
                                               ELSE ModuleReturn(k, m, num, @),
                                 !.mods = Tail(@)]]
    /\ UNCHANGED <<shared, loaded, enabled, sockState, leg, ctl, lst>>

(* lines 640-641 / 645-646: the for statement asks the iterator for the    *)
(* next module, which raises RuntimeError if the dict has changed size     *)
(* since the iterator was made, ends the loop after the last entry, and    *)
(* otherwise calls the module.                                             *)
HModule(i) ==
    /\ sess[i].pc = "module"
    /\ sess' = [sess EXCEPT ![i] =
         LET cl == @.s = @.client_socket
             d  == IF cl THEN "c" ELSE "t"
         IN  IF DictSize(d, @.it.gen) # @.it.used
               THEN ToFinally(@, "iteration")
             ELSE IF @.mods = <<>>
               THEN [@ EXCEPT !.pc = "send", !.it = Iter0]
             ELSE LET m   == Head(@.mods)
                      k   == ModuleKind(m)
                      num == IF cl THEN @.client_msg_num ELSE @.server_msg_num
                      call == [mod |-> m, num |-> num, dir |-> d,
                               arg |-> @.full_data]
                      sv  == [@ EXCEPT !.calls = Append(@, call)]
                  IN  IF ModuleRaises(k, @.full_data)
                        THEN ToFinally(sv, "module")
                        ELSE [sv EXCEPT !.full_data = ModuleReturn(k, m, num, @),
                                        !.mods = Tail(@)]]
    /\ UNCHANGED <<shared, loaded, enabled, sockState, leg, ctl, lst>>

(* a relay whose newest buffer overtakes the ones written before it *)
HSendOvertakes(i) ==
    /\ sess[i].pc = "send"
    /\ LET dest == IF sess[i].s = sess[i].client_socket
                     THEN sess[i].forward_socket ELSE sess[i].client_socket
           l == LegOf(dest)
       IN  IF \/ sess[i].full_data = NoneData
              \/ sockState[dest] # "open"
              \/ leg[i][l].rst
             THEN /\ sess' = [sess EXCEPT ![i] = ToFinally(@, "send")]
                  /\ leg' = leg
             ELSE /\ leg' = [leg EXCEPT ![i][l].out = <<sess[i].full_data>> \o @]
                  /\ sess' = [sess EXCEPT ![i] = NextReadable(@)]
    /\ UNCHANGED <<shared, loaded, enabled, sockState, ctl, lst>>

(* a relay that writes a buffer back to the leg it was read from *)
HSendBack(i) ==
    /\ sess[i].pc = "send"
    /\ LET dest == IF sess[i].s = sess[i].client_socket
                     THEN sess[i].client_socket ELSE sess[i].forward_socket
           l == LegOf(dest)
       IN  IF \/ sess[i].full_data = NoneData
              \/ sockState[dest] # "open"
              \/ leg[i][l].rst
             THEN /\ sess' = [sess EXCEPT ![i] = ToFinally(@, "send")]
                  /\ leg' = leg
             ELSE /\ leg' = [leg EXCEPT ![i][l].out = Append(@, sess[i].full_data)]
                  /\ sess' = [sess EXCEPT ![i] = NextReadable(@)]
    /\ UNCHANGED <<shared, loaded, enabled, sockState, ctl, lst>>

(* lines 642 / 647: sendall to the opposite leg; None is a TypeError, a    *)
(* closed socket object or a reset connection an OSError.                  *)
HSend(i) ==
    /\ sess[i].pc = "send"
    /\ LET dest == IF sess[i].s = sess[i].client_socket
                     THEN sess[i].forward_socket ELSE sess[i].client_socket
           l == LegOf(dest)
       IN  IF \/ sess[i].full_data = NoneData
              \/ sockState[dest] # "open"
              \/ leg[i][l].rst
             THEN /\ sess' = [sess EXCEPT ![i] = ToFinally(@, "send")]
                  /\ leg' = leg
             ELSE /\ leg' = [leg EXCEPT ![i][l].out = Append(@, sess[i].full_data)]
                  /\ sess' = [sess EXCEPT ![i] = NextReadable(@)]
    /\ UNCHANGED <<shared, loaded, enabled, sockState, ctl, lst>>

(* lines 649-652 *)
HCloseLeg(i) ==
    /\ sess[i].pc = "close_leg"
    /\ LET x == sess[i].s
           rest == RemoveFirst(sess[i].sockets, x)
       IN  /\ sockState' = Close(sockState, x)
           /\ sess' = [sess EXCEPT ![i] =
                 IF rest = <<>> THEN BreakFor([@ EXCEPT !.sockets = rest])
                 ELSE NextReadable([@ EXCEPT !.sockets = rest])]
    /\ UNCHANGED <<shared, loaded, enabled, leg, ctl, lst>>

(* line 657 *)
HFinallyCheck(i) ==
    /\ sess[i].pc = "finally_check"
    /\ sess' = [sess EXCEPT ![i].pc =
                  IF InSeq(sess[i].fin[1], client_sockets)
                    THEN "finally_remove" ELSE "finally_close"]
    /\ UNCHANGED <<shared, loaded, enabled, sockState, leg, ctl, lst>>

(* a teardown that empties the registry instead of removing its own socket *)
HFinallyRemoveClears(i) ==
    /\ sess[i].pc = "finally_remove"
    /\ client_sockets' = <<>>
    /\ sess' = [sess EXCEPT ![i].pc = "finally_close"]
    /\ UNCHANGED <<proxy_running, server_socket, client_threads, loaded,
                   enabled, sockState, leg, ctl, lst>>

(* line 658: a ValueError here leaves the finally block and ends the thread *)
HFinallyRemove(i) ==
    /\ sess[i].pc = "finally_remove"
    /\ IF InSeq(sess[i].fin[1], client_sockets)
         THEN /\ client_sockets' = RemoveFirst(client_sockets, sess[i].fin[1])
              /\ sess' = [sess EXCEPT ![i].pc = "finally_close"]
         ELSE /\ client_sockets' = client_sockets
              /\ sess' = [sess EXCEPT ![i].pc = "dead", ![i].fin = <<>>]
    /\ UNCHANGED <<proxy_running, server_socket, client_threads, loaded,
                   enabled, sockState, leg, ctl, lst>>

(* lines 659-662 *)
HFinallyClose(i) ==
    /\ sess[i].pc = "finally_close"
    /\ sockState' = Close(sockState, sess[i].fin[1])
    /\ sess' = [sess EXCEPT ![i].fin = Tail(@),
                            ![i].pc = IF Len(sess[i].fin) = 1 THEN "done"
                                      ELSE "finally_check"]
    /\ UNCHANGED <<shared, loaded, enabled, leg, ctl, lst>>

Relay(i) ==
    \/ HStart(i)
    \/ HRegisterForward(i)
    \/ HConnectFail(i)
    \/ HConnect(i)
    \/ HTlsServer(i)
    \/ HTlsServerFail(i)
    \/ HTlsClient(i)
    \/ HTlsClientFail(i)
    \/ HWhile(i)
    \/ HSelect(i)
    \/ HErrored(i)
    \/ HRecv(i)
    \/ HProcess(i)
    \/ HModule(i)
    \/ HSend(i)
    \/ HCloseLeg(i)
    \/ HFinallyCheck(i)
    \/ HFinallyRemove(i)
    \/ HFinallyClose(i)

----------------------------------------------------------------------------
(* The peers: the client and the target, and the network between *)

(* the connection of leg l is still held open by a socket object of ours *)
LegOpen(i, l) ==
    \E x \in SessionSocks : x[2] = i /\ LegOf(x) = l /\ sockState[x] = "open"

(* lines 620-652: the thread is inside its relay loop *)
InLoop(i) ==
    sess[i].pc \in {"while", "select", "errored", "recv", "process", "module",
                    "send", "close_leg"}

(* Only the relay thread looks at the state of its connections, and only   *)
(* in select, recv and sendall: whatever a peer does at another moment is  *)
(* seen as if it had been done when the thread next gets to one of them.   *)
Observes(i) == sess[i].pc \in {"select", "recv", "send"}

PeerCanAct(i, l) ==
    Observes(i) /\ leg[i][l].conn /\ LegOpen(i, l) /\ ~leg[i][l].rst

(* the peer writes n bytes in one call *)
PeerSend(i, l, n) ==
    /\ PeerCanAct(i, l)
    /\ ~leg[i][l].eof
    /\ leg' = [leg EXCEPT ![i][l].flight = @ + n, ![i][l].events = @ + 1]
    /\ UNCHANGED <<shared, loaded, enabled, sockState, ctl, lst, sess>>

(* k of the bytes under way reach our receive buffer *)
Arrive(i, l, k) ==
    /\ Observes(i) /\ leg[i][l].conn /\ LegOpen(i, l)
    /\ k \in 1 .. leg[i][l].flight
    /\ leg' = [leg EXCEPT ![i][l].flight = @ - k, ![i][l].avail = @ + k]
    /\ UNCHANGED <<shared, loaded, enabled, sockState, ctl, lst, sess>>

(* the peer closes its end *)
PeerClose(i, l) ==
    /\ PeerCanAct(i, l)
    /\ ~leg[i][l].eof
    /\ leg' = [leg EXCEPT ![i][l].eof = TRUE, ![i][l].events = @ + 1]
    /\ UNCHANGED <<shared, loaded, enabled, sockState, ctl, lst, sess>>

(* the connection is reset *)
PeerReset(i, l) ==
    /\ PeerCanAct(i, l)
    /\ leg' = [leg EXCEPT ![i][l].rst = TRUE, ![i][l].events = @ + 1]
    /\ UNCHANGED <<shared, loaded, enabled, sockState, ctl, lst, sess>>

(* the peer sends urgent data: select reports an exceptional condition *)
PeerUrgent(i, l) ==
    /\ PeerCanAct(i, l)
    /\ ~leg[i][l].eof
    /\ ~leg[i][l].oob
    /\ leg' = [leg EXCEPT ![i][l].oob = TRUE, ![i][l].events = @ + 1]
    /\ UNCHANGED <<shared, loaded, enabled, sockState, ctl, lst, sess>>

(* sizes of a peer's write, and of the pieces it may arrive in *)
(* the pieces a write may arrive in: all of it, or one buffer_size first *)
ArriveSizes(i, l) == {leg[i][l].flight, Min(leg[i][l].flight, buffer_size)}

(* The client of the lifecycle specification: it writes one byte or a     *)
(* full buffer, sends urgent data or closes; the target is silent.         *)
ClientPeer ==
    \E i \in Sessions :
        \/ \E n \in {1, buffer_size} :
              leg[i]["c"].events < MaxEvents /\ PeerSend(i, "c", n)
        \/ Arrive(i, "c", leg[i]["c"].flight)
        \/ leg[i]["c"].events < MaxEvents /\ PeerClose(i, "c")
        \/ leg[i]["c"].events < MaxEvents /\ PeerUrgent(i, "c")

----------------------------------------------------------------------------
(* The whole proxy *)

Threads ==
    \/ Controller
    \/ \E r \in Runs : Listener(r)
    \/ \E i \in Sessions : Relay(i)

Next == Threads \/ ClientPeer

Spec == Init /\ [][Next]_vars

----------------------------------------------------------------------------
(* Properties of the lifecycle: start, stop, the listener's teardown *)

Registered(x) == InSeq(x, client_sockets)
RelayEnded(i) == sess[i].pc \in {"none", "done", "dead"}
Quiescent ==
    /\ ctl.pc = "idle"
    /\ \A r \in Runs : ListenerDone(r)
    /\ \A i \in Sessions : RelayEnded(i)
StopCalled == ctl.log # <<>>
StopEnded  == ctl.pc = "idle" /\ (ctl.stops = 1 \/ ctl.raised = 1)

(* C1: once a start has been followed by stop_proxy and the threads have   *)
(* run out, the socket registry holds no socket and the thread list holds  *)
(* no thread.                                                              *)
C1_StartStopLeavesNothing ==
    (ctl.runs > 0 /\ StopEnded /\ Quiescent)
        => (client_sockets = <<>> /\ client_threads = <<>>)

(* C5: a session whose connect to the target failed has never read from   *)
(* the client leg, called no module and written to no leg, and once its    *)
(* thread has ended and nothing else is running, both its legs are closed  *)
(* and out of the registry.                                                *)
C5_ConnectFailure ==
    \A i \in Sessions :
        sess[i].error = "connect" =>
            /\ sess[i].recvd = {}
            /\ sess[i].calls = <<>>
            /\ leg[i]["c"].out = <<>> /\ leg[i]["t"].out = <<>>
            /\ Quiescent =>
                 /\ sockState[<<"c", i>>] = "closed"
                 /\ sockState[<<"f", i>>] = "closed"
                 /\ ~Registered(<<"c", i>>) /\ ~Registered(<<"f", i>>)

(* C8: stop_proxy works in phases.  While it runs the flag is false; the   *)
(* flag was cleared before anything was closed; when it joins a thread the *)
(* listening socket it found and every socket of its registry snapshot     *)
(* have been closed, and no socket is closed after a join; a join always   *)
(* returns, whether or not the thread has ended.                           *)
InStop == ctl.pc \notin {"idle", "load_client", "load_server", "start_thread"}
Joins(log) == {k \in 1 .. Len(log) : log[k][1] = "join"}
Closes(log) == {k \in 1 .. Len(log) : log[k][1] \in {"close", "close_listen"}}
C8_StopPhases ==
    /\ InStop => (~proxy_running /\ ctl.log[1][1] = "flag")
    /\ \A k \in Closes(ctl.log) : k > 1 /\ \A j \in Joins(ctl.log) : k < j
    /\ ctl.pc \in {"stop_join", "stop_thread_remove"} =>
          /\ \A k \in 1 .. Len(ctl.seen) :
                /\ sockState[ctl.seen[k]] # "open"
                /\ InSeq(<<"close", ctl.seen[k]>>, ctl.log)
          /\ \A k \in 1 .. Len(ctl.log) :
                ctl.log[k][1] = "close_listen" => sockState[ctl.log[k][2]] = "closed"
    /\ ctl.pc = "stop_join" => ENABLED StopJoin

(* stop_proxy is about to join a thread that has not ended, after closing  *)
(* the listening socket and at least one registered socket                 *)
C8_Witness ==
    /\ ctl.pc = "stop_join"
    /\ ~ThreadDone(ctl.thread)
    /\ ctl.seen # <<>>
    /\ InSeq(<<"close_listen", <<"L", 1>> >>, ctl.log)

LeftLoop(r) ==
    lst[r].pc \in {"finally_flag", "finally_server_socket", "finally_snapshot",
                   "finally_close", "finally_check", "finally_remove",
                   "finally_clear", "done", "dead"}
----------------------------------------------------------------------------
(* One session on its own: the proxy is running, the listener waits in     *)
(* accept, a connection has just been accepted and its relay thread        *)
(* started.  Nobody presses Stop; both peers act.                          *)

MaxRelayEvents == 2     \* things the two peers of a session may do

RelayEnabledChoices ==
    { [c |-> {3},    s |-> {}],
      [c |-> {1, 2}, s |-> {2, 6}],
      [c |-> {},     s |-> {1, 3}],
      [c |-> {1, 4, 6}, s |-> {3, 4}] }

RelaySendSizes == {1, buffer_size, buffer_size + 1}

(* one connection has been accepted; the module directories are one of E *)
InitSession(E) ==
    /\ proxy_running = TRUE
    /\ server_socket = <<"L", 1>>
    /\ client_sockets = <<>>
    /\ client_threads = <<1>>
    /\ enabled \in E
    /\ loaded_modules_client = load_client_modules
    /\ loaded_modules_server = load_server_modules
    /\ module_dicts = [d \in Legs |-> [gen |-> 1, old |-> <<0>>]]
    /\ sockState = [x \in AllSocks |->
                      IF x \in {<<"L", 1>>, <<"c", 1>>} THEN "open" ELSE "none"]
    /\ leg = [i \in Sessions |-> [l \in Legs |->
                 IF i = 1 /\ l = "c" THEN [Leg0 EXCEPT !.conn = TRUE] ELSE Leg0]]
    /\ ctl = [Ctl0 EXCEPT !.runs = 1]
    /\ \E tc \in BOOLEAN, ts \in BOOLEAN :
          /\ lst = [r \in Runs |->
                      IF r = 1
                        THEN [Lst0 EXCEPT !.pc = "accept", !.listening = TRUE,
                                !.cfg = [Config0 EXCEPT
                                           !.use_tls_client = tc,
                                           !.use_tls_server = ts]]
                        ELSE Lst0]
          /\ sess = [i \in Sessions |->
                      IF i = 1
                        THEN [Sess0 EXCEPT !.pc = "start",
                                !.client_socket = <<"c", 1>>,
                                !.use_tls_client = tc,
                                !.use_tls_server = ts,
                                !.run = 1]
                        ELSE Sess0]

InitRelay == InitSession(RelayEnabledChoices)

(* what the two peers of session i have done so far *)
PeerEvents(i) == leg[i]["c"].events + leg[i]["t"].events

RelayPeers ==
    \E i \in Sessions, l \in Legs :
        \/ \E n \in RelaySendSizes :
              PeerEvents(i) < MaxRelayEvents /\ PeerSend(i, l, n)
        \/ \E k \in ArriveSizes(i, l) : Arrive(i, l, k)
        \/ PeerEvents(i) < MaxRelayEvents /\ PeerClose(i, l)
        \/ PeerEvents(i) < MaxRelayEvents /\ PeerReset(i, l)
        \/ PeerEvents(i) < MaxRelayEvents /\ PeerUrgent(i, l)

NextRelay == (\E i \in Sessions : Relay(i)) \/ RelayPeers

SpecRelay == InitRelay /\ [][NextRelay]_vars

(* The relay threads get to run; the peers owe nothing. *)
FairRelay == SpecRelay /\ \A i \in Sessions : WF_vars(Relay(i))

----------------------------------------------------------------------------
(* Claims about the data a session relays *)

(* the pipeline applied to what is read from leg d *)
(* what the relay of session i has written to the leg opposite to d *)
Written(i, d) == leg[i][Other(d)].out

(* the module calls made for buffers of leg d *)
CallsOf(i, d) == SelectSeq(sess[i].calls, LAMBDA c : c.dir = d)

(* the transforms a buffer numbered num carries after the modules ms *)
RECURSIVE ExpectedTrail(_, _)
ExpectedTrail(ms, num) ==
    IF ms = <<>> THEN <<>>
    ELSE (IF ModuleKind(Head(ms)) = "xf"
            THEN << <<ModuleFunction(Head(ms)), num>> >> ELSE <<>>)
         \o ExpectedTrail(Tail(ms), num)

(* the bytes peer l has written so far *)
BytesSent(i, l) == leg[i][l].flight + leg[i][l].avail + leg[i][l].rpos

(* everything the client of session i wrote reached the target, unmodified *)
(* and in order                                                            *)
RECURSIVE Contiguous(_, _, _)
Contiguous(w, from, to) ==
    IF w = <<>> THEN from = to
    ELSE /\ Head(w).org = "c" /\ Head(w).fx = <<>>
         /\ Head(w).lo = from /\ Head(w).hi > from
         /\ Contiguous(Tail(w), Head(w).hi, to)

IdentityPipeline(d) == \A j \in 1 .. Len(Pipeline(d)) : ModuleKind(Pipeline(d)[j]) = "id"

(* C2: with an identity client-direction pipeline, whatever the client     *)
(* writes reaches the target, all of it, unmodified and in order, without  *)
(* anything more from the client.  In a state: when every byte the client  *)
(* wrote has arrived at the proxy, the target is silent, no connection has *)
(* been closed or reset, and the relay thread has no step left to take,    *)
(* then the target has received all those bytes.                           *)
C2_IdentityDelivers ==
    \A i \in Sessions :
        ( /\ IdentityPipeline("c")
          /\ proxy_running
          /\ InLoop(i)
          /\ leg[i]["c"].flight = 0
          /\ ~leg[i]["c"].eof /\ ~leg[i]["c"].rst /\ ~leg[i]["c"].oob
          /\ leg[i]["t"].events = 0
          /\ ~ENABLED Relay(i) )
        => Contiguous(Written(i, "c"), 0, BytesSent(i, "c"))

(* C3: a pipeline loaded in the order [A, B] forwards every drained buffer *)
(* p as B(A(p)): the modules are called in load order, each one is given   *)
(* the output of the one before it, the first one the drained buffer; with *)
(* the order [B, A] the buffer is forwarded as A(B(p)).                    *)
C3_PipelineOrder ==
    \A i \in Sessions, d \in Legs :
        LET P == Pipeline(d)
            W == Written(i, d)
            K == CallsOf(i, d)
            L == Len(P)
        IN  /\ \A k \in 1 .. Len(W) : W[k].fx = ExpectedTrail(P, k)
            /\ \A j \in 1 .. Len(K) :
                  /\ K[j].mod = P[((j - 1) % L) + 1]
                  /\ K[j].arg.fx =
                        ExpectedTrail(SubSeq(P, 1, (j - 1) % L), K[j].num)
            /\ P = <<1, 2>> =>
                  \A k \in 1 .. Len(W) : W[k].fx = << <<"A", k>>, <<"B", k>> >>
            /\ P = <<2, 6>> =>
                  \A k \in 1 .. Len(W) : W[k].fx = << <<"B", k>>, <<"A", k>> >>

(* a session that forwarded B(A(p)) to the target and A(B(q)) to the client *)
C3_Witness ==
    \E i \in Sessions :
        /\ Pipeline("c") = <<1, 2>> /\ Pipeline("t") = <<2, 6>>
        /\ Len(Written(i, "c")) >= 1 /\ Len(Written(i, "t")) >= 1
        /\ Written(i, "c")[1].fx = << <<"A", 1>>, <<"B", 1>> >>
        /\ Written(i, "t")[1].fx = << <<"B", 1>>, <<"A", 1>> >>

Counter(i, d) == IF d = "c" THEN sess[i].client_msg_num ELSE sess[i].server_msg_num

(* the relay of session i is about to run the pipeline of leg d *)
Invokes(i, d) ==
    /\ sess[i].pc = "process"
    /\ LegOf(sess[i].s) = d
    /\ sess[i].full_data.lo # sess[i].full_data.hi

(* C4: the sequence numbers the modules of one leg are given are 1, 2, 3,  *)
(* ... in that order.  The leg's counter is 0 until the relay loop, goes   *)
(* up by exactly one when the pipeline of that leg is about to run and at  *)
(* no other step, never goes down, and a step that moves one leg's counter *)
(* leaves the other leg's and every other session's alone.                 *)
C4_SequenceNumbers ==
    /\ [](\A i \in Sessions, d \in Legs :
            /\ sess[i].pc \in {"none", "start", "register_forward", "connect",
                               "tls_server", "tls_client"} => Counter(i, d) = 0
            /\ Counter(i, d) \in {Len(Written(i, d)), Len(Written(i, d)) + 1}
            /\ \A j \in 1 .. Len(CallsOf(i, d)) :
                  CallsOf(i, d)[j].num = ((j - 1) \div Len(Pipeline(d))) + 1)
    /\ [][\A i \in Sessions, d \in Legs :
            /\ Counter(i, d)' \in {Counter(i, d), Counter(i, d) + 1}
            /\ Counter(i, d)' = Counter(i, d) + 1 <=>
                  (Invokes(i, d) /\ sess[i]' # sess[i])
            /\ Counter(i, d)' # Counter(i, d) =>
                  /\ Counter(i, Other(d))' = Counter(i, Other(d))
                  /\ \A o \in Sessions \ {i} : sess[o]' = sess[o]]_vars

(* the two modules of the client leg were given 1 for the first buffer and *)
(* 2 for the second, and the target leg's counter has not moved            *)
C4_Witness ==
    \E i \in Sessions :
        /\ sess[i].client_msg_num = 2 /\ sess[i].server_msg_num = 0
        /\ Len(CallsOf(i, "c")) = 4
        /\ CallsOf(i, "c")[2].num = 1 /\ CallsOf(i, "c")[4].num = 2
        /\ Len(Written(i, "c")) = 2

(* the modules enabled for leg d *)
EnabledFor(d) == IF d = "c" THEN enabled.c ELSE enabled.s

(* C7: a buffer read from the client leg goes through the client modules   *)
(* only and is written to the target leg only; a buffer read from the      *)
(* target leg goes through the server modules only and is written to the   *)
(* client leg only; with no module for a direction the buffer is forwarded *)
(* as it was read.                                                         *)
C7_DirectionsApart ==
    \A i \in Sessions, d \in Legs :
        /\ \A k \in 1 .. Len(leg[i][d].out) :
              LET w == leg[i][d].out[k]
              IN  /\ w.org = Other(d)
                  /\ w.lo < w.hi
                  /\ \A j \in 1 .. Len(w.fx) :
                        \E m \in EnabledFor(Other(d)) : w.fx[j][1] = ModuleFunction(m)
                  /\ EnabledFor(Other(d)) = {} => w.fx = <<>>
        /\ \A j \in 1 .. Len(sess[i].calls) :
              LET c == sess[i].calls[j]
              IN  /\ c.arg.org = c.dir
                  /\ c.mod \in EnabledFor(c.dir)

(* a transformed buffer went to the client and an untouched one to the     *)
(* target, which has no module of its own                                  *)
C7_Witness ==
    \E i \in Sessions :
        /\ enabled.c = {} /\ enabled.s = {1, 3}
        /\ Len(leg[i]["t"].out) >= 1 /\ leg[i]["t"].out[1].fx = <<>>
        /\ Len(leg[i]["c"].out) >= 1 /\ leg[i]["c"].out[1].fx = << <<"A", 1>> >>

(* C6: when the client disconnects during the relay (a read of the client  *)
(* leg returns no byte), the session goes on to close the target leg and   *)
(* to take both legs out of the registry, whatever the target does and     *)
(* without a stop.                                                         *)
C6_ClientDisconnectClosesTarget ==
    \A i \in Sessions :
        (sess[i].pc = "close_leg" /\ LegOf(sess[i].s) = "c")
            ~> (/\ ~LegOpen(i, "t")
                /\ \A x \in SessionSocks : x[2] = i => ~Registered(x))

(* C9: after stop_proxy, and with no later start, the listener thread and  *)
(* every relay thread leave their loops and end, a forced close making the *)
(* pending waits, reads and writes on a socket return.  In a state: once   *)
(* stop_proxy has run to its end, a thread that has not ended has a step   *)
(* to take; none is left waiting for its peer.                             *)
C9_StopReleasesThreads ==
    (ctl.pc = "idle" /\ ctl.stops = 1 /\ ~proxy_running)
        => /\ \A r \in Runs : ListenerDone(r) \/ ENABLED Listener(r)
           /\ \A i \in Sessions : RelayEnded(i) \/ ENABLED Relay(i)

----------------------------------------------------------------------------
(* Starting with a configuration that is not valid.  The listener binds    *)
(* only a port a socket accepts and a relay thread connects only to such a *)
(* port, so the steps after a successful connect cannot happen here.       *)

InvalidConfigs ==
    {cfg \in Configs : /\ ~ValidConfig(cfg)
                       /\ ~cfg.use_tls_client /\ ~cfg.use_tls_server}

RelayUnconnected(i) ==
    \/ HStart(i)
    \/ HRegisterForward(i)
    \/ HConnectFail(i)
    \/ HFinallyCheck(i)
    \/ HFinallyRemove(i)
    \/ HFinallyClose(i)

NextConfig ==
    \/ \E cfg \in InvalidConfigs : ctl.runs < MaxRuns /\ Toggle(cfg)
    \/ LoadModules
    \/ StartThread
    \/ StopProxy
    \/ \E r \in Runs : Listener(r)
    \/ \E i \in Sessions : RelayUnconnected(i)

SpecConfig == Init /\ [][NextConfig]_vars

(* C11: whatever is wrong with the configuration (a port that is not an    *)
(* integer, a port outside the valid range, no target host), toggle_proxy  *)
(* refuses before anything is created: no listener thread is started for   *)
(* it, no listening socket is created, and the running flag is not set.    *)
C11_InvalidConfigRejected ==
    /\ [](\A r \in Runs :
            (lst[r].pc # "none" \/ sockState[<<"L", r>>] # "none")
                => ValidConfig(lst[r].cfg))
    /\ [][(~proxy_running /\ proxy_running') =>
            ValidConfig(lst'[ctl'.runs].cfg)]_vars

(* C12: when the TLS setup of a leg fails (loading the certificate or the  *)
(* handshake, on the target leg or on the client leg, the target leg being *)
(* wrapped already or not), the session never enters its relay loop, calls *)
(* no module, reads and writes nothing, logs the error under the           *)
(* connection identity it has, and has both legs closed when its thread    *)
(* has ended (and no other thread is in the middle of a teardown).         *)
TlsFailed(i) == sess[i].error \in {"tls_server", "tls_client"}
C12_TlsFailure ==
    \A i \in Sessions :
        TlsFailed(i) =>
            /\ sess[i].sockets = <<>>
            /\ sess[i].calls = <<>>
            /\ sess[i].recvd = {}
            /\ leg[i]["c"].out = <<>> /\ leg[i]["t"].out = <<>>
            /\ sess[i].connection_info
            /\ (ThreadDone(i) /\ ctl.pc = "idle" /\ \A r \in Runs : ListenerDone(r))
                  => (~LegOpen(i, "c") /\ ~LegOpen(i, "t"))

InFinally(i) ==
    sess[i].pc \in {"finally_check", "finally_remove", "finally_close",
                    "done", "dead"}

(* C13: when a module raises, the modules after it are not called, nothing *)
(* of that buffer is written to the opposite leg, the module is not called *)
(* again, and the session is in its teardown with the error logged under   *)
(* its connection identity; from then on it calls and writes nothing.      *)
C13_ModuleRaises ==
    /\ [](\A i \in Sessions : \A j \in 1 .. Len(sess[i].calls) :
            LET c == sess[i].calls[j]
            IN  ModuleRaises(ModuleKind(c.mod), c.arg) =>
                  /\ j = Len(sess[i].calls)
                  /\ \A h \in 1 .. j - 1 :
                        ~(sess[i].calls[h].mod = c.mod
                          /\ sess[i].calls[h].dir = c.dir
                          /\ sess[i].calls[h].num = c.num)
                  /\ Len(Written(i, c.dir)) = c.num - 1
                  /\ sess[i].error = "module"
                  /\ InFinally(i)
                  /\ sess[i].connection_info)
    /\ [][\A i \in Sessions :
            sess[i].error = "module" =>
                /\ sess'[i].calls = sess[i].calls
                /\ leg'[i]["c"].out = leg[i]["c"].out
                /\ leg'[i]["t"].out = leg[i]["t"].out]_vars

(* the second of three client modules raised on the first buffer, the      *)
(* third was not called, and the thread has ended                          *)
C13_Witness ==
    \E i \in Sessions :
        /\ Pipeline("c") = <<1, 4, 6>>
        /\ Len(sess[i].calls) = 2 /\ sess[i].calls[2].mod = 4
        /\ sess[i].error = "module"
        /\ sess[i].pc = "done"
        /\ Written(i, "c") = <<>>

----------------------------------------------------------------------------
(* Two sessions side by side: the proxy is running, two connections have   *)
(* been accepted and their relay threads started; nobody presses Stop.     *)

MaxPairEvents == 1      \* things the peers of the two sessions may do

PairEnabledChoices ==
    { [c |-> {1, 2}, s |-> {3}],
      [c |-> {1, 4}, s |-> {}] }

PairSendSizes == {1, buffer_size}

RECURSIVE EventsOf(_)
EventsOf(S) ==
    IF S = {} THEN 0
    ELSE LET i == CHOOSE x \in S : TRUE
         IN  PeerEvents(i) + EventsOf(S \ {i})

InitPair ==
    /\ proxy_running = TRUE
    /\ server_socket = <<"L", 1>>
    /\ client_sockets = <<>>
    /\ client_threads = SortedSeq(Sessions)
    /\ enabled \in PairEnabledChoices
    /\ loaded_modules_client = load_client_modules
    /\ loaded_modules_server = load_server_modules
    /\ module_dicts = [d \in Legs |-> [gen |-> 1, old |-> <<0>>]]
    /\ sockState = [x \in AllSocks |->
                      IF x \in {<<"L", 1>>} \cup ({"c"} \X Sessions)
                        THEN "open" ELSE "none"]
    /\ leg = [i \in Sessions |-> [l \in Legs |->
                 IF l = "c" THEN [Leg0 EXCEPT !.conn = TRUE] ELSE Leg0]]
    /\ ctl = [Ctl0 EXCEPT !.runs = 1]
    /\ \E tc \in BOOLEAN, ts \in BOOLEAN :
          /\ lst = [r \in Runs |->
                      IF r = 1
                        THEN [Lst0 EXCEPT !.pc = "accept", !.listening = TRUE,
                                !.cfg = [Config0 EXCEPT
                                           !.use_tls_client = tc,
                                           !.use_tls_server = ts]]
                        ELSE Lst0]
          /\ sess = [i \in Sessions |->
                      [Sess0 EXCEPT !.pc = "start",
                                    !.client_socket = <<"c", i>>,
                                    !.use_tls_client = tc,
                                    !.use_tls_server = ts,
                                    !.run = 1]]

PairPeers ==
    \E i \in Sessions, l \in Legs :
        \/ \E n \in PairSendSizes :
              EventsOf(Sessions) < MaxPairEvents /\ PeerSend(i, l, n)
        \/ \E k \in ArriveSizes(i, l) : Arrive(i, l, k)
        \/ EventsOf(Sessions) < MaxPairEvents /\ PeerClose(i, l)
        \/ EventsOf(Sessions) < MaxPairEvents /\ PeerReset(i, l)
        \/ EventsOf(Sessions) < MaxPairEvents /\ PeerUrgent(i, l)

NextPair == (\E i \in Sessions : Relay(i)) \/ PairPeers

SpecPair == InitPair /\ [][NextPair]_vars

(* the registry entries that are not session i's *)
OthersRegistered(q, i) == SelectSeq(q, LAMBDA x : x[2] # i)

(* C14: whatever fails in the thread of a session (connect, TLS, a module, *)
(* the transport), no step of that thread, its teardown included, changes  *)
(* the running flag, the listening socket, the thread list, or anything of *)
(* another session: its sockets, its connections, its registry entries.    *)
C14_SessionFrame ==
    [][\A i \in Sessions :
          (sess[i].pc # "none" /\ sess'[i] # sess[i]) =>
              /\ proxy_running' = proxy_running
              /\ server_socket' = server_socket
              /\ client_threads' = client_threads
              /\ \A x \in ListenSocks : sockState'[x] = sockState[x]
              /\ \A x \in SessionSocks :
                    x[2] # i => sockState'[x] = sockState[x]
              /\ OthersRegistered(client_sockets', i)
                    = OthersRegistered(client_sockets, i)
              /\ \A o \in Sessions \ {i} :
                    sess'[o] = sess[o] /\ leg'[o] = leg[o]]_vars

(* one session has failed and ended while the other one is relaying with   *)
(* both legs open and registered                                           *)
C14_Witness ==
    \E i \in Sessions, o \in Sessions :
        /\ i # o
        /\ sess[i].pc = "done" /\ sess[i].error # ""
        /\ InLoop(o)
        /\ LegOpen(o, "c") /\ LegOpen(o, "t")
        /\ Registered(<<"c", o>>) /\ Registered(<<"f", o>>)
        /\ proxy_running /\ sockState[<<"L", 1>>] = "open"
        /\ Len(client_threads) = MaxSessions

(* C15: the registry holds a socket exactly while a live session owns it:  *)
(* every leg a session in its relay loop is using, a TLS-wrapped leg       *)
(* included, is in the registry, and no socket of a session whose thread   *)
(* has ended is.                                                           *)
C15_RegistryIsOwnership ==
    \A i \in Sessions :
        /\ InLoop(i) =>
              \A k \in 1 .. Len(sess[i].sockets) : Registered(sess[i].sockets[k])
        /\ ThreadDone(i) =>
              \A x \in SessionSocks : x[2] = i => ~Registered(x)

----------------------------------------------------------------------------
(* Module files moved while a session relays *)

(* the module files the user moves: one disabled for connections from the  *)
(* client, one enabled for those from the target                           *)
ReloadToggles == {<<"c", 2>>, <<"t", 3>>}

InitReload ==
    /\ InitRelay
    /\ enabled = [c |-> {1, 2}, s |-> {2, 6}]

NextReload ==
    \/ NextRelay
    \/ \E x \in ReloadToggles : ToggleModule(x[1], x[2])
    \/ LoadModules

SpecReload == InitReload /\ [][NextReload]_vars

(* the modules called, in call order, for buffer number n of leg d *)
ModsFor(i, d, n) ==
    LET K == SelectSeq(CallsOf(i, d), LAMBDA c : c.num = n)
    IN  [j \in 1 .. Len(K) |-> K[j].mod]

(* the pipeline of buffer number n of leg d has not run to its end yet *)
InPipeline(i, d, n) ==
    /\ sess[i].pc = "module"
    /\ LegOf(sess[i].s) = d
    /\ Counter(i, d) = n

(* C16: the modules a session applies are fixed for its lifetime: every    *)
(* buffer of a leg goes through the modules, in the order, the first       *)
(* buffer of that leg went through, whatever is enabled or disabled in     *)
(* between, and the relay never meets a set that is half loaded.           *)
C16_ModuleSetFixed ==
    \A i \in Sessions, d \in Legs :
        /\ sess[i].error # "iteration"
        /\ \A n \in 2 .. Counter(i, d) :
              LET first == ModsFor(i, d, 1)
                  these == ModsFor(i, d, n)
              IN  /\ Len(these) <= Len(first)
                  /\ these = SubSeq(first, 1, Len(these))
                  /\ ~InPipeline(i, d, n) => these = first

----------------------------------------------------------------------------
(* Transport errors in the relay loop *)

(* the recv the relay of session i is about to make raises socket.error *)
RecvRaises(i) ==
    /\ sess[i].pc = "recv"
    /\ \/ sockState[sess[i].s] # "open"
       \/ leg[i][LegOf(sess[i].s)].rst

(* the sendall the relay of session i is about to make raises socket.error *)
SendRaises(i) ==
    /\ sess[i].pc = "send"
    /\ LET dest == IF sess[i].s = sess[i].client_socket
                     THEN sess[i].forward_socket ELSE sess[i].client_socket
       IN  sockState[dest] # "open" \/ leg[i][LegOf(dest)].rst

(* C17: a transport error in the relay loop aborts the session: the read   *)
(* that raises, like the write that raises, takes the thread out of the    *)
(* loop and into its teardown; the loop does not go on after it.           *)
C17_TransportErrorAborts ==
    [][\A i \in Sessions :
          (RecvRaises(i) \/ SendRaises(i)) /\ sess'[i] # sess[i]
              => InFinally(i)']_vars

----------------------------------------------------------------------------
(* The registries under concurrent teardown *)

(* C18: the three teardowns (stop_proxy, the finally block of start_proxy, *)
(* the finally block of handle_client) never get in each other's way: no   *)
(* remove is made on an element another thread has taken out already, so   *)
(* no teardown ends in ValueError; stop_proxy reaches its last statement   *)
(* with both registries empty; a relay thread that has ended has closed    *)
(* both its legs.                                                          *)
C18_RegistrySynchronized ==
    /\ ctl.raised = 0
    /\ \A r \in Runs : lst[r].pc # "dead"
    /\ \A i \in Sessions : sess[i].pc # "dead"
    /\ ctl.pc = "stop_log" => (client_sockets = <<>> /\ client_threads = <<>>)
    /\ \A i \in Sessions :
          ThreadDone(i) => (~LegOpen(i, "c") /\ ~LegOpen(i, "t"))

(* C19: once handle_client has returned, however its loop ended and with   *)
(* or without TLS, both legs of the session are closed and the registry    *)
(* holds none of its socket objects: neither the two it registered nor     *)
(* the ones it ended up using.                                             *)
C19_ReturnLeavesNothing ==
    \A i \in Sessions :
        sess[i].pc = "done" =>
            /\ ~LegOpen(i, "c") /\ ~LegOpen(i, "t")
            /\ ~Registered(<<"c", i>>) /\ ~Registered(<<"f", i>>)
            /\ ~Registered(sess[i].client_socket)
            /\ ~Registered(sess[i].forward_socket)

(* stop_proxy is past the loop of lines 720-727 *)
PastForceClose ==
    ctl.pc \in {"stop_threads", "stop_join", "stop_thread_remove", "stop_log"}

(* C20: when stop_proxy has closed the registry, no relay thread is left    *)
(* with an open socket to wait on, read from or write to: the two sockets  *)
(* of every session in its relay loop, TLS-wrapped ones included, have     *)
(* been closed.                                                            *)
C20_StopClosesEveryLeg ==
    PastForceClose =>
        \A i \in Sessions :
            InLoop(i) => /\ sockState[sess[i].client_socket] # "open"
                         /\ sockState[sess[i].forward_socket] # "open"

----------------------------------------------------------------------------
(* Stop followed by a new start, with no client connecting *)

(* no module file is enabled *)
InitRestart ==
    /\ proxy_running = FALSE
    /\ server_socket = NoSock
    /\ client_sockets = <<>>
    /\ client_threads = <<>>
    /\ loaded_modules_client = <<>>
    /\ loaded_modules_server = <<>>
    /\ module_dicts = [d \in Legs |-> Dict0]
    /\ enabled = [c |-> {}, s |-> {}]
    /\ sockState = [x \in AllSocks |-> "none"]
    /\ leg = [i \in Sessions |-> [l \in Legs |-> Leg0]]
    /\ ctl = Ctl0
    /\ lst = [r \in Runs |-> Lst0]
    /\ sess = [i \in Sessions |-> Sess0]

(* start_proxy while no client connects *)
ListenerAlone(r) ==
    \/ LCreate(r)
    \/ LBind(r)
    \/ LWhile(r)
    \/ LAcceptTimeout(r)
    \/ LAcceptError(r)
    \/ LFinallyFlag(r)
    \/ LFinallyServerSocket(r)
    \/ LFinallySnapshot(r)
    \/ LFinallyClear(r)

(* stop_proxy with nothing in the registries *)
StopAlone ==
    \/ StopFlag
    \/ StopServerSocket
    \/ StopSnapshot
    \/ StopThreads
    \/ StopLog

NextRestart ==
    \/ ctl.runs < MaxStarts /\ ToggleStart(FALSE, FALSE)
    \/ LoadClientEnd
    \/ LoadServerEnd
    \/ StartThread
    \/ StopAlone
    \/ \E r \in Runs : ListenerAlone(r)

SpecRestart == InitRestart /\ [][NextRestart]_vars

(* the listener of run r is past line 697 of its finally block *)
PastServerSocket(r) ==
    lst[r].pc \in {"finally_snapshot", "finally_close", "finally_check",
                   "finally_remove", "finally_clear", "done", "dead"}

(* C21: however the listener leaves its accept loop (flag seen false,      *)
(* accept error, bind or listen failure), its finally block sets the flag  *)
(* false, and once it is past line 697 the listening socket it created is  *)
(* closed and self.server_socket does not name it, also when stop_proxy    *)
(* had closed that socket before; unless the proxy has been started again  *)
(* since, the flag is still false.                                         *)
C21_ListenerExit ==
    /\ [](\A r \in Runs :
            PastServerSocket(r) =>
                /\ sockState[<<"L", r>>] # "open"
                /\ server_socket # <<"L", r>>
                /\ r = ctl.runs => ~proxy_running)
    /\ [][\A r \in Runs :
            (lst[r].pc = "finally_flag" /\ lst'[r].pc # "finally_flag")
                => ~proxy_running']_vars

(* a listener has ended whose socket stop_proxy had closed already, and    *)
(* another one has ended on an accept error                                *)
C21_Witness ==
    /\ \E r \in Runs :
          /\ lst[r].pc = "done"
          /\ InSeq(<<"close_listen", <<"L", r>> >>, ctl.log)
    /\ \E r \in Runs : lst[r].pc = "done" /\ lst[r].accept_error

----------------------------------------------------------------------------
(* What becomes of the bytes a session reads *)

(* C22: within a session the buffers written to one leg are the buffers    *)
(* drained from the other one in the order they were drained: each covers  *)
(* bytes of the stream that lie after the bytes of every buffer written     *)
(* before it, so none overtakes an earlier one and none is written twice.  *)
C22_ForwardOrder ==
    \A i \in Sessions, d \in Legs :
        LET W == Written(i, d)
        IN  \A k \in 1 .. Len(W) :
                /\ W[k].org = d
                /\ \A j \in 1 .. Len(W) : k < j => W[k].hi <= W[j].lo

(* two buffers of one leg have been written to the other *)
C22_Witness ==
    \E i \in Sessions, d \in Legs :
        /\ Len(Written(i, d)) >= 2
        /\ Written(i, d)[1].hi <= Written(i, d)[2].lo

(* the bytes the relay of session i has taken from its two legs *)
BytesRead(i) == leg[i]["c"].rpos + leg[i]["t"].rpos

(* C23: the relay loop goes round only while the flag is set and a leg is  *)
(* left in the active set.  Once both legs have been removed (by reads of  *)
(* no byte or by readiness errors, in any order) both are closed, and the  *)
(* thread takes no more bytes from a leg, calls no module and writes       *)
(* nothing: its next test of the loop condition takes it to its teardown.  *)
C23_LoopCondition ==
    /\ [](\A i \in Sessions :
            (InLoop(i) /\ sess[i].sockets = <<>>) =>
                (~LegOpen(i, "c") /\ ~LegOpen(i, "t")))
    /\ [][\A i \in Sessions :
            /\ (sess[i].pc = "while" /\ sess'[i] # sess[i]) =>
                  (InLoop(i)' <=> (sess[i].sockets # <<>> /\ proxy_running))
            /\ (InLoop(i) /\ sess[i].sockets = <<>>) =>
                  /\ BytesRead(i)' = BytesRead(i)
                  /\ sess'[i].calls = sess[i].calls
                  /\ leg'[i]["c"].out = leg[i]["c"].out
                  /\ leg'[i]["t"].out = leg[i]["t"].out
                  /\ sess'[i].pc \in {sess[i].pc, "while", "finally_check"}]_vars

(* with the flag still set, a session has gone to its teardown because one *)
(* leg was removed on a readiness error and the other on a read of no byte *)
C23_Witness ==
    \E i \in Sessions, l \in Legs :
        /\ sess[i].pc = "finally_check" /\ sess[i].error = ""
        /\ sess[i].sockets = <<>>
        /\ proxy_running
        /\ leg[i][l].oob /\ leg[i][Other(l)].eof

(* C24: a leg select reports as errored is dealt with like a leg whose     *)
(* read returned no byte: in both cases the socket is taken out of the     *)
(* active set and closed and no module is called; a module is only ever    *)
(* called for a buffer of a leg that is in the active set, so none is      *)
(* called for an errored leg that select reported readable as well.        *)
C24_ErroredLikeClosed ==
    [][\A i \in Sessions :
          /\ (sess[i].pc \in {"errored", "close_leg"} /\ sess'[i] # sess[i]) =>
                LET x == IF sess[i].pc = "errored"
                           THEN Head(sess[i].errored) ELSE sess[i].s
                IN  /\ InSeq(x, sess[i].sockets)
                    /\ ~InSeq(x, sess'[i].sockets)
                    /\ sockState'[x] # "open"
                    /\ sess'[i].calls = sess[i].calls
          /\ sess'[i].calls # sess[i].calls =>
                /\ InSeq(sess[i].s, sess[i].sockets)
                /\ sess'[i].calls[Len(sess'[i].calls)].dir = LegOf(sess[i].s)]_vars

(* a leg that was readable and errored in the same wait has been removed   *)
(* and closed, the read tried on it after that has failed, and no module   *)
(* has been called                                                         *)
C24_Witness ==
    \E i \in Sessions, l \in Legs :
        /\ sess[i].pc = "while"
        /\ leg[i][l].oob /\ leg[i][l].avail > 0
        /\ l \in sess[i].recvd
        /\ ~LegOpen(i, l)
        /\ Len(sess[i].sockets) = 1 /\ LegOf(sess[i].sockets[1]) = Other(l)
        /\ sess[i].calls = <<>>

----------------------------------------------------------------------------
(* Modules that return None *)

(* for buffers of the client the module that returns None comes before a   *)
(* transform, for those of the target it comes last, after the identity    *)
NoneEnabledChoices == { [c |-> {5, 6}, s |-> {3, 5}] }

InitNone == InitSession(NoneEnabledChoices)

SpecNone == InitNone /\ [][NextRelay]_vars

(* C25: a module that returns None, wherever it stands in the pipeline, is *)
(* a fault of the pipeline: None is not given to the module after it,      *)
(* nothing is written for that buffer, and the session ends.               *)
C25_NoneIsFault ==
    \A i \in Sessions :
        /\ \A j \in 1 .. Len(sess[i].calls) : sess[i].calls[j].arg # NoneData
        /\ \A l \in Legs :
              \A k \in 1 .. Len(leg[i][l].out) : leg[i][l].out[k] # NoneData

----------------------------------------------------------------------------
(* The threads of a run that has been stopped, after a new start *)

(* C26: when the proxy has been stopped and started again, the finally     *)
(* block of the listener of the stopped run leaves the new run alone: it   *)
(* does not set the flag false, and it neither closes nor un-references    *)
(* the listening socket of the later run.                                  *)
C26_OldTeardownSpares ==
    [][\A r \in Runs :
          (/\ lst'[r] # lst[r] /\ LeftLoop(r)
           /\ lst[r].flag_seen_false /\ ctl.stops = 1
           /\ r < ctl.runs) =>
              /\ proxy_running' = proxy_running
              /\ \A q \in Runs :
                    q > r => /\ sockState'[<<"L", q>>] = sockState[<<"L", q>>]
                             /\ server_socket = <<"L", q>>
                                   => server_socket' = server_socket]_vars

(* the listener of run r is inside the loop of lines 672-686 *)
InAcceptLoop(r) == lst[r].pc \in {"while", "accept", "append"}

(* C27: no two listener threads are inside their accept loops at the same  *)
(* time, and the listener of a run that was stopped does not get to accept *)
(* on the listening socket of a later run.                                 *)
C27_OneListener ==
    /\ \A r \in Runs, q \in Runs :
          (InAcceptLoop(r) /\ InAcceptLoop(q)) => r = q
    /\ \A r \in Runs, q \in Runs :
          (/\ lst[r].pc = "accept"
           /\ server_socket = <<"L", q>>
           /\ sockState[<<"L", q>>] = "open" /\ lst[q].listening) => q <= r

----------------------------------------------------------------------------
(* A session of a run that is stopped and started again *)

StoppedEnabledChoices == { [c |-> {1}, s |-> {}] }

(* one connection has been accepted, without TLS on either leg *)
InitStopped ==
    /\ InitSession(StoppedEnabledChoices)
    /\ \A i \in Sessions : ~sess[i].use_tls_client /\ ~sess[i].use_tls_server

(* start_proxy from line 672 on, while no further client connects *)
ListenerNoAccept(r) ==
    \/ LWhile(r)
    \/ LAcceptTimeout(r)
    \/ LAcceptError(r)
    \/ LFinallyFlag(r)
    \/ LFinallyServerSocket(r)
    \/ LFinallySnapshot(r)
    \/ LFinallyClose(r)
    \/ LFinallyCheck(r)
    \/ LFinallyRemove(r)
    \/ LFinallyClear(r)

(* handle_client without TLS, its peers neither closing nor sending        *)
(* urgent data                                                             *)
RelayPlain(i) ==
    \/ HStart(i)
    \/ HRegisterForward(i)
    \/ HConnectFail(i)
    \/ HConnect(i)
    \/ HWhile(i)
    \/ HSelect(i)
    \/ HRecv(i)
    \/ HProcess(i)
    \/ HModule(i)
    \/ HSend(i)
    \/ HFinallyCheck(i)
    \/ HFinallyRemove(i)
    \/ HFinallyClose(i)

(* the client writes one byte; the target is silent *)
StoppedPeer ==
    \E i \in Sessions :
        \/ leg[i]["c"].events < MaxEvents /\ PeerSend(i, "c", 1)
        \/ Arrive(i, "c", leg[i]["c"].flight)

NextStopped ==
    \/ ctl.runs < MaxStarts /\ ToggleStart(FALSE, FALSE)
    \/ LoadClient
    \/ LoadClientEnd
    \/ LoadServerEnd
    \/ StartThread
    \/ StopProxy
    \/ ListenerNoAccept(1)
    \/ \E i \in Sessions : RelayPlain(i)
    \/ StoppedPeer

SpecStopped == InitStopped /\ [][NextStopped]_vars

(* a stop_proxy has returned for the run that accepted session i *)
RunStopped(i) == sess[i].run # 0 /\ sess[i].run <= ctl.stopped

(* C28: once stop_proxy has returned for the run that accepted a session,  *)
(* the thread of that session calls no module and writes to neither leg,   *)
(* whether or not the proxy has been started again in the meantime.        *)
C28_StoppedSessionSilent ==
    [][\A i \in Sessions :
          RunStopped(i) =>
              /\ sess'[i].calls = sess[i].calls
              /\ \A l \in Legs : leg'[i][l].out = leg[i][l].out]_vars

----------------------------------------------------------------------------
(* Claims about the drain loop *)

(* the end of the last buffer of leg d that has been written out *)
Forwarded(i, d) ==
    LET W == Written(i, d)
    IN  IF W = <<>> THEN 0 ELSE W[Len(W)].hi

(* session i is at line 620-624, between two passes over the readable      *)
(* sockets                                                                 *)
BetweenPasses(i) == sess[i].pc \in {"while", "select", "errored"}

(* C29: while a session keeps relaying, no byte it has read is dropped:    *)
(* whenever its thread is back at the head of the relay loop, every byte   *)
(* the drain loops have read from a leg has been written, as one of the    *)
(* buffers that went through the pipeline, to the opposite leg.  A drain   *)
(* whose later recv raises does not discard the chunks it has read and     *)
(* leave the session in its loop.                                          *)
C29_NoByteDropped ==
    \A i \in Sessions, d \in Legs :
        BetweenPasses(i) => leg[i][d].rpos = Forwarded(i, d)

(* the buffer of session i holds bytes *)
HasData(i) == sess[i].full_data.lo # sess[i].full_data.hi

(* the thread of session i takes a step *)
Steps(i) == sess'[i] # sess[i]

(* C30: what a peer sent just before it closed is still forwarded.  When a *)
(* drain has read chunks and its next recv returns nothing, the buffer is  *)
(* kept whole and the leg stays in the list, open; the buffer goes to the  *)
(* pipeline and from there to sendall on the opposite leg within the same  *)
(* pass; the leg is removed and closed only by a pass whose drain left the *)
(* buffer empty.                                                           *)
C30_LastDataForwarded ==
    /\ [](\A i \in Sessions :
            (sess[i].pc = "process" /\ HasData(i)) =>
                /\ sess[i].full_data.org = LegOf(sess[i].s)
                /\ sess[i].full_data.hi = leg[i][LegOf(sess[i].s)].rpos)
    /\ [][\A i \in Sessions :
            LET l == LegOf(sess[i].s)
            IN  /\ (/\ sess[i].pc = "recv" /\ sess'[i].pc = "process"
                    /\ leg'[i][l].rpos = leg[i][l].rpos
                    /\ HasData(i)) =>
                        /\ sess'[i].full_data = sess[i].full_data
                        /\ sess'[i].sockets = sess[i].sockets
                        /\ sockState' = sockState
                /\ (sess[i].pc = "process" /\ HasData(i) /\ Steps(i)) =>
                        /\ sess'[i].pc = "module"
                        /\ sess'[i].full_data = sess[i].full_data
                        /\ sess'[i].sockets = sess[i].sockets
                        /\ sockState' = sockState
                /\ (sess[i].pc = "module" /\ Steps(i)) =>
                        /\ sess'[i].pc \in {"module", "send", "finally_check"}
                        /\ sess'[i].sockets = sess[i].sockets
                /\ (/\ sess[i].pc = "send" /\ Steps(i)
                    /\ sess'[i].pc # "finally_check") =>
                        leg'[i][Other(l)].out =
                            Append(leg[i][Other(l)].out, sess[i].full_data)
                /\ (sess[i].pc = "close_leg" /\ Steps(i)) =>
                        /\ ~HasData(i)
                        /\ ~InSeq(sess[i].s, sess'[i].sockets)
                        /\ sockState'[sess[i].s] # "open"]_vars

(* a peer has sent exactly one full chunk and closed; the chunk has been   *)
(* written to the other leg, and the leg of that peer is now removed and   *)
(* closed while the session relays on                                      *)
C30_Witness ==
    \E i \in Sessions, d \in Legs :
        /\ BetweenPasses(i)
        /\ leg[i][d].eof /\ leg[i][d].rpos = buffer_size
        /\ Len(Written(i, d)) = 1
        /\ Written(i, d)[1].lo = 0 /\ Written(i, d)[1].hi = buffer_size
        /\ ~LegOpen(i, d)
        /\ Len(sess[i].sockets) = 1 /\ LegOf(sess[i].sockets[1]) = Other(d)

============================================================================
